---------------------------- MODULE Spec2Model ----------------------------
(***************************************************************************)
(* A model of the CSV-to-JSON conversion pipeline of cursor-demo:          *)
(*   src/src/main.py                      CSVToJSONConverter (orchestrator)*)
(*   src/src/readers/schema_reader.py     SchemaReader                     *)
(*   src/src/readers/csv_reader.py        CSVReader                        *)
(*   src/src/processors/data_validator.py DataValidator                    *)
(*   src/src/processors/data_transformer.py DataTransformer                *)
(*   src/src/writers/json_writer.py       JSONWriter                       *)
(*   src/src/utils/config.py              ConfigManager                    *)
(*                                                                         *)
(* Three specifications share the definitions below:                       *)
(*   Spec          the orchestrator: runs of run_conversion, one step per  *)
(*                 table and phase, over the process-wide singletons;      *)
(*   SpecValidate  DataValidator.validate_dataframe applied to one         *)
(*                 (schema, table name, DataFrame) input drawn in Init;    *)
(*   SpecScore     DataValidator._calculate_quality_score applied to the   *)
(*                 results dictionaries drawn in Init.                     *)
(***************************************************************************)
EXTENDS Integers, Sequences, FiniteSets, TLC

(***************************************************************************)
(* Bounds of the model.                                                    *)
(***************************************************************************)
\* rows of a DataFrame handed to validate_dataframe (SpecValidate)
MaxRows == 2
\* length of each findings list handed to _calculate_quality_score (SpecScore)
MaxFindings == 11
\* calls of run_conversion in one process (Spec)
MaxRuns == 2
\* the records of one table handed to create_combined_dataset
MaxRecords == 5

(***************************************************************************)
(* Cell values.  A value is a record [tag, n, s]: tag "int" and "float"    *)
(* carry the number in n (floats of the model are whole numbers), tag      *)
(* "str" carries the text in s.  The three null representations of pandas  *)
(* are kept apart: "NA" (pd.NA of the Int64 and string extension dtypes),  *)
(* "NaN" (float64) and "None" (object columns).                            *)
(***************************************************************************)
NullTags == {"NA", "NaN", "None"}

NA == [tag |-> "NA", n |-> 0, s |-> ""]

NaN == [tag |-> "NaN", n |-> 0, s |-> ""]

None == [tag |-> "None", n |-> 0, s |-> ""]

IntV(i) == [tag |-> "int", n |-> i, s |-> ""]

FloatV(x) == [tag |-> "float", n |-> x, s |-> ""]

StrV(t) == [tag |-> "str", n |-> 0, s |-> t]

\* pandas isnull()/isna() of one cell
IsNull(v) == v.tag \in NullTags

\* the cell < 0 of a numeric comparison; a null compares as NA / False
IsNegative(v) == v.tag \in {"int", "float"} /\ v.n < 0

\* the cell == '' of a string comparison; a null compares as NA / False
IsEmptyString(v) == v.tag = "str" /\ v.s = ""

(***************************************************************************)
(* Column names.  TLC does not index into strings, so str.endswith is      *)
(* tabulated for the names of the model.                                   *)
(***************************************************************************)
ColOrder == <<"id", "order_id", "item_price", "name">>

ColPool == {ColOrder[i] : i \in 1..Len(ColOrder)}

EndsWith(name, suffix) ==
    CASE suffix = "_id"       -> name \in {"order_id"}
      [] suffix = "_price"    -> name \in {"item_price"}
      [] suffix = "_subtotal" -> FALSE
      [] OTHER                -> FALSE

\* the schema type the model declares for a column name
TypeOfName(name) ==
    CASE name \in {"id", "order_id"} -> "int64"
      [] name = "item_price"         -> "float64"
      [] OTHER                       -> "string"

(***************************************************************************)
(* Sequence helpers.                                                       *)
(***************************************************************************)
Range(s) == {s[i] : i \in 1..Len(s)}

RECURSIVE SeqSum(_)
SeqSum(s) == IF s = <<>> THEN 0 ELSE Head(s) + SeqSum(Tail(s))

\* F applied to the value of x, with x evaluated once
Then(x, F(_)) == CHOOSE y \in {F(v) : v \in {x}} : TRUE

(***************************************************************************)
(* SchemaReader.  `schemas` is the loaded 'tables' dictionary: a function  *)
(* from table names to table schemas.  A table schema is                   *)
(*   [has_columns, order, cfg]                                             *)
(* where order lists the column names in the order of the YAML mapping     *)
(* (the iteration order of the Python dict) and cfg[c] is the column's     *)
(* configuration [has_type, type, has_position, position, required]        *)
(* (required is col_config.get('required', False)).                        *)
(***************************************************************************)
ColumnConfig(type, position, required) ==
    [has_type |-> TRUE, type |-> type,
     has_position |-> TRUE, position |-> position, required |-> required]

\* get_table_schema raises KeyError for a table the schemas do not hold
SchemaKnown(schemas, table_name) == table_name \in DOMAIN schemas

\* schema.get('columns', {}) as the sequence of column names, in dict order
SchemaColumns(schemas, table_name) ==
    IF schemas[table_name].has_columns THEN schemas[table_name].order ELSE <<>>

\* col_config.get('position', 0)
PositionOf(cfg) == IF cfg.has_position THEN cfg.position ELSE 0

\* insert column c into the position-sorted sequence s, after every column
\* whose position is not greater (sorted() is stable)
RECURSIVE InsertByPosition(_, _, _)
InsertByPosition(s, c, cfg) ==
    IF s = <<>> THEN <<c>>
    ELSE IF PositionOf(cfg[Head(s)]) <= PositionOf(cfg[c])
         THEN <<Head(s)>> \o InsertByPosition(Tail(s), c, cfg)
         ELSE <<c>> \o s

RECURSIVE SortByPosition(_, _)
SortByPosition(order, cfg) ==
    IF order = <<>> THEN <<>>
    ELSE Then(SortByPosition(SubSeq(order, 1, Len(order) - 1), cfg),
              LAMBDA sorted : InsertByPosition(sorted, order[Len(order)], cfg))

\* a faulty get_column_names that keeps the order of the schemas file
GetColumnNamesInFileOrder(schemas, table_name) == SchemaColumns(schemas, table_name)

\* get_column_names: the column names sorted by position
GetColumnNames(schemas, table_name) ==
    SortByPosition(SchemaColumns(schemas, table_name), schemas[table_name].cfg)

\* the pandas dtype get_pandas_dtypes maps a column configuration to
PandasDtype(cfg) ==
    LET col_type == IF cfg.has_type THEN cfg.type ELSE "string"
    IN  CASE col_type = "int64"   -> "Int64"
          [] col_type = "float64" -> "float64"
          [] col_type = "string"  -> "string"
          [] OTHER                -> "string"

\* get_pandas_dtypes: column name -> pandas dtype
GetPandasDtypes(schemas, table_name) ==
    [c \in Range(SchemaColumns(schemas, table_name)) |->
        PandasDtype(schemas[table_name].cfg[c])]

\* a faulty get_required_columns that takes every column for required
GetRequiredColumnsAll(schemas, table_name) == SchemaColumns(schemas, table_name)

\* get_required_columns: the required columns, in dict order
GetRequiredColumns(schemas, table_name) ==
    SelectSeq(SchemaColumns(schemas, table_name),
              LAMBDA c : schemas[table_name].cfg[c].required)

(***************************************************************************)
(* DataFrames: [columns, dtypes, rows, index] with columns the sequence of  *)
(* column labels, dtypes[c] the dtype label of column c, rows a sequence   *)
(* of functions from column label to cell value, and index the sequence of *)
(* the row labels.  A row label is a tuple of cell values: <<IntV(i)>> in  *)
(* the default index 0..n-1 that read_csv builds from lines no longer than *)
(* the schema's columns, the leading cells of the line otherwise.  The row *)
(* labels of a DataFrame of the model are distinct.                        *)
(***************************************************************************)
\* pd.RangeIndex(n)
RangeIndex(n) == [i \in 1..n |-> <<IntV(i - 1)>>]

NumericDtypes == {"int64", "Int64", "float64"}

StringDtypes == {"string", "object"}

DfLen(df) == Len(df.rows)

InColumns(df, c) == c \in Range(df.columns)

\* df.select_dtypes(include=kinds).columns
SelectDtypes(df, kinds) == SelectSeq(df.columns, LAMBDA c : df.dtypes[c] \in kinds)

\* df[c].isnull().sum()
NullCount(df, c) == Cardinality({i \in 1..DfLen(df) : IsNull(df.rows[i][c])})

\* (df[c] < 0).sum()
\* a faulty (df[col] < 0).sum() in which a missing value compares as negative
NegativeCountWithNulls(df, c) ==
    Cardinality({i \in 1..DfLen(df) : IsNegative(df.rows[i][c]) \/ IsNull(df.rows[i][c])})

NegativeCount(df, c) == Cardinality({i \in 1..DfLen(df) : IsNegative(df.rows[i][c])})

\* (df[c] == '').sum()
EmptyStringCount(df, c) ==
    Cardinality({i \in 1..DfLen(df) : IsEmptyString(df.rows[i][c])})

(***************************************************************************)
(* DataValidator.  A finding is [kind, cols, count]: the message appended  *)
(* to errors, warnings or issues, with the column(s) and the count it      *)
(* names.  The score is a Python float; every value it takes is a whole    *)
(* number that a double holds exactly, so the model computes it in         *)
(* integers (100 stands for 100.0).                                        *)
(***************************************************************************)
Finding(kind, cols, count) == [kind |-> kind, cols |-> cols, count |-> count]

\* the results dictionary validate_dataframe starts from
InitialResults(df, table_name) ==
    [table_name |-> table_name, total_rows |-> DfLen(df), valid_rows |-> 0,
     issues |-> <<>>, warnings |-> <<>>, errors |-> <<>>,
     data_quality_score |-> 0]

\* a faulty _validate_required_columns that reports each missing column on
\* its own
ValidateRequiredColumnsPerColumn(schemas, df, table_name, results) ==
    LET missing == SelectSeq(GetColumnNames(schemas, table_name),
                             LAMBDA c : ~InColumns(df, c))
    IN  [results EXCEPT !.errors =
            @ \o [i \in 1..Len(missing) |->
                     Finding("missing_columns", {missing[i]}, 1)]]

\* _validate_required_columns (the table is known to the schema)
ValidateRequiredColumns(schemas, df, table_name, results) ==
    LET expected_columns == Range(GetColumnNames(schemas, table_name))
        actual_columns   == Range(df.columns)
        missing_columns  == expected_columns \ actual_columns
        extra_columns    == actual_columns \ expected_columns
        r1 == IF missing_columns # {}
              THEN [results EXCEPT !.errors =
                        Append(@, Finding("missing_columns", missing_columns,
                                          Cardinality(missing_columns)))]
              ELSE results
    IN  IF extra_columns # {}
        THEN [r1 EXCEPT !.warnings =
                  Append(@, Finding("extra_columns", extra_columns,
                                    Cardinality(extra_columns)))]
        ELSE r1

\* actual_type.startswith(comp), for the dtype labels of the model (none of
\* them is a proper prefix of another)
StartsWith(actual_type, comp) == actual_type = comp

\* _types_compatible
TypesCompatible(actual_type, expected_type) ==
    LET expected_compatible ==
            CASE expected_type = "Int64"   -> {"int64", "Int64"}
              [] expected_type = "int64"   -> {"int64", "Int64"}
              [] expected_type = "float64" -> {"float64", "float32"}
              [] expected_type = "string"  -> {"string", "object"}
              [] OTHER                     -> {expected_type}
    IN  \E comp \in expected_compatible : StartsWith(actual_type, comp)

\* _validate_data_types (the table is known to the schema)
ValidateDataTypes(schemas, df, table_name, results) ==
    LET expected_dtypes == GetPandasDtypes(schemas, table_name)
        mismatched == SelectSeq(SchemaColumns(schemas, table_name),
                          LAMBDA c : /\ InColumns(df, c)
                                     /\ ~TypesCompatible(df.dtypes[c], expected_dtypes[c]))
    IN  [results EXCEPT !.issues =
            @ \o [i \in 1..Len(mismatched) |->
                     Finding("type_mismatch", {mismatched[i]}, 0)]]

\* the test of _validate_required_fields on a required column
RequiredFieldFails(df, col_name) ==
    InColumns(df, col_name) /\ NullCount(df, col_name) > 0

\* a faulty _validate_required_fields that reports nothing
ValidateRequiredFieldsSilent(schemas, df, table_name, results) == results

\* _validate_required_fields (the table is known to the schema)
ValidateRequiredFields(schemas, df, table_name, results) ==
    LET required_columns == GetRequiredColumns(schemas, table_name)
        failing == SelectSeq(required_columns, LAMBDA c : RequiredFieldFails(df, c))
    IN  [results EXCEPT !.errors =
            @ \o [i \in 1..Len(failing) |->
                     Finding("required_null", {failing[i]}, NullCount(df, failing[i]))]]

\* the issue _validate_data_ranges raises for one numeric column, if any
RangeIssues(df, col_name) ==
    IF EndsWith(col_name, "_id")
    THEN IF NegativeCount(df, col_name) > 0
         THEN <<Finding("negative_id", {col_name}, NegativeCount(df, col_name))>>
         ELSE <<>>
    ELSE IF EndsWith(col_name, "_price") \/ EndsWith(col_name, "_subtotal")
         THEN IF NegativeCount(df, col_name) > 0
              THEN <<Finding("negative_price", {col_name}, NegativeCount(df, col_name))>>
              ELSE <<>>
         ELSE <<>>

RECURSIVE RangeIssuesOfAll(_, _)
RangeIssuesOfAll(df, cols) ==
    IF cols = <<>> THEN <<>>
    ELSE RangeIssues(df, Head(cols)) \o RangeIssuesOfAll(df, Tail(cols))

\* _validate_data_ranges
ValidateDataRanges(df, table_name, results) ==
    LET numeric_columns == SelectDtypes(df, NumericDtypes)
        string_columns  == SelectDtypes(df, StringDtypes)
        with_empty == SelectSeq(string_columns,
                                LAMBDA c : EmptyStringCount(df, c) > 0)
    IN  [results EXCEPT
            !.issues = @ \o RangeIssuesOfAll(df, numeric_columns),
            !.warnings = @ \o [i \in 1..Len(with_empty) |->
                Finding("empty_string", {with_empty[i]},
                        EmptyStringCount(df, with_empty[i]))]]

BaseScore == 100

ErrorPenalty == 10

WarningPenalty == 5

IssuePenalty == 2

Max(a, b) == IF a >= b THEN a ELSE b

\* a faulty _calculate_quality_score without the floor at 0
CalculateQualityScoreUnclamped(results) ==
    BaseScore - Len(results.errors) * ErrorPenalty
              - Len(results.warnings) * WarningPenalty
              - Len(results.issues) * IssuePenalty

\* a faulty _calculate_quality_score that charges every finding alike
CalculateQualityScoreEqualPenalties(results) ==
    Max(0, BaseScore - (Len(results.errors) + Len(results.warnings)
                        + Len(results.issues)) * WarningPenalty)

\* _calculate_quality_score
CalculateQualityScore(results) ==
    LET error_count   == Len(results.errors)
        warning_count == Len(results.warnings)
        issue_count   == Len(results.issues)
        score == BaseScore - error_count * ErrorPenalty
                           - warning_count * WarningPenalty
                           - issue_count * IssuePenalty
    IN  Max(0, score)

\* the rows _count_valid_rows counts: every required column that is present
\* is not null
RowIsValid(schemas, df, table_name, i) ==
    \A c \in Range(GetRequiredColumns(schemas, table_name)) :
        InColumns(df, c) => ~IsNull(df.rows[i][c])

\* valid_mask after the loop of _count_valid_rows, as the set of its labels
\* that hold True.  valid_mask = pd.Series([True] * len(df)) carries the
\* labels 0..n-1; every `valid_mask &= df[col].notna()` aligns the two Series
\* on their labels, a label that df does not carry gives False, and the
\* in-place operator keeps the labels of valid_mask.
ValidMask(schemas, df, table_name) ==
    IF \A c \in Range(GetRequiredColumns(schemas, table_name)) : ~InColumns(df, c)
    THEN 0..(DfLen(df) - 1)
    ELSE {p \in 0..(DfLen(df) - 1) :
            \E i \in 1..DfLen(df) :
                /\ df.index[i] = <<IntV(p)>>
                /\ RowIsValid(schemas, df, table_name, i)}

\* a faulty _count_valid_rows without the early return on errors
CountValidRowsIgnoringErrors(schemas, df, table_name, results) ==
    Cardinality(ValidMask(schemas, df, table_name))

\* _count_valid_rows (past the early return, the table is known to the schema)
CountValidRows(schemas, df, table_name, results) ==
    IF results.errors # <<>>
    THEN 0
    ELSE Cardinality(ValidMask(schemas, df, table_name))

(***************************************************************************)
(* validate_dataframe runs its steps inside one try block.  A run is       *)
(* [exc, res, completed]: exc says that a step raised (every later step is *)
(* skipped), res is the results dictionary so far and completed lists the  *)
(* steps that ran to their end.  A step that asks the SchemaReader for a   *)
(* table the schemas do not hold raises KeyError.                          *)
(***************************************************************************)
CheckNames == <<"required_columns", "data_types", "required_fields", "data_ranges">>

\* a faulty validate_dataframe that gives up once a step has found an error
CompletedOrHalted(st, step, res) ==
    [exc |-> res.errors # <<>>, res |-> res,
     completed |-> Append(st.completed, step)]

Completed(st, step, res) ==
    [exc |-> FALSE, res |-> res, completed |-> Append(st.completed, step)]

Raised(st) == [st EXCEPT !.exc = TRUE]

\* step number k of the try block, from the run st so far
ValidateStep(schemas, df, table_name, st, k) ==
    LET known == SchemaKnown(schemas, table_name)
    IN  CASE k = 1 ->
               IF ~known THEN Raised(st)
               ELSE Completed(st, "required_columns",
                        ValidateRequiredColumns(schemas, df, table_name, st.res))
          [] k = 2 ->
               IF ~known THEN Raised(st)
               ELSE Completed(st, "data_types",
                        ValidateDataTypes(schemas, df, table_name, st.res))
          [] k = 3 ->
               IF ~known THEN Raised(st)
               ELSE Completed(st, "required_fields",
                        ValidateRequiredFields(schemas, df, table_name, st.res))
          [] k = 4 ->
               Completed(st, "data_ranges",
                         ValidateDataRanges(df, table_name, st.res))
          [] k = 5 ->
               Completed(st, "quality_score",
                         [st.res EXCEPT !.data_quality_score =
                              CalculateQualityScore(st.res)])
          [] k = 6 ->
               IF st.res.errors = <<>> /\ ~known THEN Raised(st)
               ELSE Completed(st, "valid_rows",
                        [st.res EXCEPT !.valid_rows =
                             CountValidRows(schemas, df, table_name, st.res)])

\* the steps k, k+1, ... of the try block; a step that raises ends it
RECURSIVE ValidateSteps(_, _, _, _, _)
ValidateSteps(schemas, df, table_name, st, k) ==
    IF k > 6 \/ st.exc THEN st
    ELSE Then(ValidateStep(schemas, df, table_name, st, k),
              LAMBDA nxt : ValidateSteps(schemas, df, table_name, nxt, k + 1))

\* the except clause of validate_dataframe
ValidateExcept(st) ==
    IF st.exc
    THEN [st EXCEPT !.res.errors = Append(@, Finding("process_failed", {}, 0))]
    ELSE st

ValidateRun(schemas, df, table_name) ==
    Then([exc |-> FALSE, res |-> InitialResults(df, table_name), completed |-> <<>>],
         LAMBDA s0 : Then(ValidateSteps(schemas, df, table_name, s0, 1),
                          LAMBDA st : ValidateExcept(st)))

\* validate_dataframe: the results dictionary it returns
ValidateDataframe(schemas, df, table_name) == ValidateRun(schemas, df, table_name).res

(***************************************************************************)
(* SchemaReader.validate_schema and CSVReader.read_csv_file.  A CSV file   *)
(* is [exists, lines]: lines is the sequence of its rows, each the         *)
(* sequence of its raw cell texts.  Reading yields [ok, df, error].        *)
(***************************************************************************)
\* validate_schema: the ValueError it raises, or "" when the schema passes
\* (the table is known to the schemas)
ValidateSchemaError(schemas, table_name) ==
    LET schema == schemas[table_name]
    IN  IF ~schema.has_columns THEN "no_columns"
        ELSE IF schema.order = <<>> THEN "empty_columns"
        ELSE IF \E c \in Range(schema.order) : ~schema.cfg[c].has_type
             THEN "missing_type"
        ELSE IF \E c \in Range(schema.order) : ~schema.cfg[c].has_position
             THEN "missing_position"
        ELSE ""

\* na_values=['', 'NULL', 'null', 'None'] of read_csv
NaValues == {"", "NULL", "null", "None"}

\* keep_default_na=True adds the parser's own markers (those the model uses)
DefaultNaValues == {"NA", "N/A", "NaN", "nan", "n/a", "<NA>", "#N/A"}

\* the raw texts that parse as a number, with the number
NumberLiterals == ("-1" :> (0 - 1)) @@ ("0" :> 0) @@ ("1" :> 1) @@ ("2" :> 2) @@ ("3" :> 3)

\* the null a column of the given dtype stores
NullOf(dtype) ==
    CASE dtype = "float64" -> NaN
      [] dtype = "object"  -> None
      [] OTHER             -> NA

\* a faulty read_csv that matches the markers of na_values in any letter case
ParseCellAnyCase(dtype, text) ==
    IF text \in NaValues \cup DefaultNaValues \cup {"NONE", "Null"}
    THEN [ok |-> TRUE, value |-> NullOf(dtype)]
    ELSE CASE dtype = "Int64" ->
                IF text \in DOMAIN NumberLiterals
                THEN [ok |-> TRUE, value |-> IntV(NumberLiterals[text])]
                ELSE [ok |-> FALSE, value |-> NA]
           [] dtype = "float64" ->
                IF text \in DOMAIN NumberLiterals
                THEN [ok |-> TRUE, value |-> FloatV(NumberLiterals[text])]
                ELSE [ok |-> FALSE, value |-> NaN]
           [] OTHER -> [ok |-> TRUE, value |-> StrV(text)]

\* the conversion of one raw cell to the column's dtype: [ok, value]
ParseCell(dtype, text) ==
    IF text \in NaValues \cup DefaultNaValues
    THEN [ok |-> TRUE, value |-> NullOf(dtype)]
    ELSE CASE dtype = "Int64" ->
                IF text \in DOMAIN NumberLiterals
                THEN [ok |-> TRUE, value |-> IntV(NumberLiterals[text])]
                ELSE [ok |-> FALSE, value |-> NA]
           [] dtype = "float64" ->
                IF text \in DOMAIN NumberLiterals
                THEN [ok |-> TRUE, value |-> FloatV(NumberLiterals[text])]
                ELSE [ok |-> FALSE, value |-> NaN]
           [] OTHER -> [ok |-> TRUE, value |-> StrV(text)]

\* the number of fields the parser lays the rows out in: the names, or the
\* first line when it is longer (its leading fields then become the index)
TableWidth(column_names, lines) == Max(Len(column_names), Len(lines[1]))

\* the raw text of column number j (1-based, among the names) of a line; a
\* line shorter than the table is filled with missing values
RawCell(column_names, lines, line, j) ==
    LET k == TableWidth(column_names, lines) - Len(column_names) + j
    IN  IF k <= Len(line) THEN line[k] ELSE ""

\* the cell of a leading column that read_csv turns into a part of the row
\* label: the column holds integers when every line gives it one, and the
\* texts otherwise
IndexCell(lines, k, text) ==
    IF \A i \in 1..Len(lines) :
           k <= Len(lines[i]) /\ lines[i][k] \in DOMAIN NumberLiterals
    THEN IntV(NumberLiterals[text])
    ELSE StrV(text)

\* the index of the DataFrame read_csv builds: the default index, or the
\* leading cells of the lines when the first line has more cells than names
ReadIndex(column_names, lines) ==
    LET extra == TableWidth(column_names, lines) - Len(column_names)
    IN  IF extra = 0
        THEN RangeIndex(Len(lines))
        ELSE [i \in 1..Len(lines) |->
                [k \in 1..extra |->
                    IndexCell(lines, k,
                              IF k <= Len(lines[i]) THEN lines[i][k] ELSE "")]]

\* pd.read_csv(header=None, names=column_names, dtype=dtypes, na_values=...)
ParseCsv(column_names, dtypes, lines) ==
    LET n == Len(column_names)
        cell(i, j) == ParseCell(dtypes[column_names[j]],
                                RawCell(column_names, lines, lines[i], j))
        empty_df == [columns |-> column_names, dtypes |-> dtypes, rows |-> <<>>,
                     index |-> <<>>]
    IN  IF lines = <<>>
        THEN [ok |-> FALSE, df |-> empty_df, error |-> "EmptyDataError"]
        ELSE IF \E i \in 1..Len(lines) : Len(lines[i]) > TableWidth(column_names, lines)
        THEN [ok |-> FALSE, df |-> empty_df, error |-> "ParserError"]
        ELSE IF \E i \in 1..Len(lines), j \in 1..n : ~cell(i, j).ok
        THEN [ok |-> FALSE, df |-> empty_df, error |-> "ValueError"]
        ELSE [ok |-> TRUE, error |-> "",
              df |-> [columns |-> column_names, dtypes |-> dtypes,
                      rows |-> [i \in 1..Len(lines) |->
                                  [c \in Range(column_names) |->
                                     LET j == CHOOSE j \in 1..n : column_names[j] = c
                                     IN  cell(i, j).value]],
                      index |-> ReadIndex(column_names, lines)]]

\* a faulty read_csv_file that does not call validate_schema
ReadCsvFileUnchecked(schemas, table_name, file) ==
    LET no_df == [columns |-> <<>>, dtypes |-> <<>>, rows |-> <<>>, index |-> <<>>]
    IN  IF ~SchemaKnown(schemas, table_name)
        THEN [ok |-> FALSE, df |-> no_df, error |-> "KeyError"]
        ELSE IF ~file.exists
        THEN [ok |-> FALSE, df |-> no_df, error |-> "FileNotFoundError"]
        ELSE ParseCsv(GetColumnNames(schemas, table_name),
                      GetPandasDtypes(schemas, table_name), file.lines)

\* read_csv_file
ReadCsvFile(schemas, table_name, file) ==
    LET no_df == [columns |-> <<>>, dtypes |-> <<>>, rows |-> <<>>, index |-> <<>>]
    IN  IF ~SchemaKnown(schemas, table_name)
        THEN [ok |-> FALSE, df |-> no_df, error |-> "KeyError"]
        ELSE IF ValidateSchemaError(schemas, table_name) # ""
        THEN [ok |-> FALSE, df |-> no_df, error |-> "SchemaValueError"]
        ELSE IF ~file.exists
        THEN [ok |-> FALSE, df |-> no_df, error |-> "FileNotFoundError"]
        ELSE ParseCsv(GetColumnNames(schemas, table_name),
                      GetPandasDtypes(schemas, table_name), file.lines)

(***************************************************************************)
(* DataTransformer.  A record of the output is a sequence of [col, value]  *)
(* pairs (a Python dict keeps its insertion order); a JSON value is a cell *)
(* value or JsonNull.                                                      *)
(***************************************************************************)
JsonNull == [tag |-> "null", n |-> 0, s |-> ""]

\* series.where(series.notna(), None) on one cell: a missing value stays the
\* missing value of the column's dtype
WhereNotNa(dtype, v) == IF IsNull(v) THEN NullOf(dtype) ELSE v

\* a faulty _clean_dataframe that leaves the empty strings in place
WhereNotEmptyKept(dtype, v) == v

\* series.where(series != '', None) on one cell
WhereNotEmpty(dtype, v) == IF IsEmptyString(v) THEN NullOf(dtype) ELSE v

\* _clean_dataframe on one cell of a column of the given dtype
CleanCell(dtype, v) ==
    CASE dtype = "Int64"        -> WhereNotNa(dtype, v)
      [] dtype \in StringDtypes -> WhereNotEmpty(dtype, WhereNotNa(dtype, v))
      [] dtype = "float64"      -> WhereNotNa(dtype, v)
      [] OTHER                  -> v

\* _clean_dataframe: a cleaned copy of df
CleanDataframe(df, table_name) ==
    [df EXCEPT !.rows =
        [i \in 1..DfLen(df) |->
            [c \in Range(df.columns) |-> CleanCell(df.dtypes[c], df.rows[i][c])]]]

\* a faulty _convert_to_records that tests `value is None` and so lets NaN through
RecordValueKeepNaN(v) == IF v.tag \in {"NA", "None"} THEN JsonNull ELSE v

\* the value _convert_to_records stores for one cell
RecordValue(v) == IF IsNull(v) THEN JsonNull ELSE v

\* a faulty _convert_to_records that leaves out the rows holding a missing
\* value
ConvertToRecordsOfFullRows(df, table_name) ==
    LET full == SelectSeq([i \in 1..DfLen(df) |-> i],
                          LAMBDA i : \A c \in Range(df.columns) : ~IsNull(df.rows[i][c]))
    IN  [k \in 1..Len(full) |->
            [j \in 1..Len(df.columns) |->
                [col |-> df.columns[j],
                 value |-> RecordValue(df.rows[full[k]][df.columns[j]])]]]


\* _convert_to_records
ConvertToRecords(df, table_name) ==
    [i \in 1..DfLen(df) |->
        [j \in 1..Len(df.columns) |->
            [col |-> df.columns[j], value |-> RecordValue(df.rows[i][df.columns[j]])]]]

\* the non-null numbers of a column
NonNullNumbers(df, c) == {df.rows[i][c].n : i \in {k \in 1..DfLen(df) : ~IsNull(df.rows[k][c])}}

SetMin(S) == CHOOSE x \in S : \A y \in S : x <= y

SetMax(S) == CHOOSE x \in S : \A y \in S : x >= y

\* a faulty _generate_metadata whose mean divides by the number of rows
ColumnStatisticsOverRows(df, c) ==
    LET idx == {i \in 1..DfLen(df) : ~IsNull(df.rows[i][c])}
        has_data == df.dtypes[c] \in NumericDtypes /\ idx # {}
        values == [i \in 1..DfLen(df) |-> IF i \in idx THEN df.rows[i][c].n ELSE 0]
    IN  IF has_data
        THEN [keys |-> {"min", "max", "mean", "null_count"},
              min |-> SetMin(NonNullNumbers(df, c)),
              max |-> SetMax(NonNullNumbers(df, c)),
              mean_sum |-> SeqSum(values), mean_count |-> DfLen(df),
              null_count |-> NullCount(df, c)]
        ELSE [keys |-> {"null_count"}, min |-> 0, max |-> 0,
              mean_sum |-> 0, mean_count |-> 0,
              null_count |-> NullCount(df, c)]

\* the statistics entry of one column: keys lists the fields the entry has;
\* the mean is kept as the pair (sum, count) of the non-null values
ColumnStatistics(df, c) ==
    LET idx == {i \in 1..DfLen(df) : ~IsNull(df.rows[i][c])}
        has_data == df.dtypes[c] \in NumericDtypes /\ idx # {}
        values == [i \in 1..DfLen(df) |-> IF i \in idx THEN df.rows[i][c].n ELSE 0]
    IN  IF has_data
        THEN [keys |-> {"min", "max", "mean", "null_count"},
              min |-> SetMin(NonNullNumbers(df, c)),
              max |-> SetMax(NonNullNumbers(df, c)),
              mean_sum |-> SeqSum(values), mean_count |-> Cardinality(idx),
              null_count |-> NullCount(df, c)]
        ELSE [keys |-> {"null_count"}, min |-> 0, max |-> 0,
              mean_sum |-> 0, mean_count |-> 0,
              null_count |-> NullCount(df, c)]

\* _generate_metadata (without the timestamp)
GenerateMetadata(df, table_name) ==
    [table_name |-> table_name,
     record_count |-> DfLen(df),
     column_count |-> Len(df.columns),
     columns |-> df.columns,
     data_types |-> [c \in Range(df.columns) |-> df.dtypes[c]],
     statistics |-> [c \in Range(df.columns) |-> ColumnStatistics(df, c)]]

\* transform_dataframe: the result dictionary of a transformation that
\* does not raise
TransformDataframe(df, table_name) ==
    Then(CleanDataframe(df, table_name),
         LAMBDA df_clean : [metadata |-> GenerateMetadata(df_clean, table_name),
                            data |-> ConvertToRecords(df_clean, table_name)])

\* the entry transform_dataframe leaves in transformation_stats
TransformationStats(df, transformed) ==
    [original_rows |-> DfLen(df), transformed_rows |-> Len(transformed.data),
     columns |-> df.columns]

\* the sum of f[x] over the finite set S
RECURSIVE SumOf(_, _)
SumOf(f, S) ==
    IF S = {} THEN 0
    ELSE LET x == CHOOSE x \in S : TRUE IN f[x] + SumOf(f, S \ {x})

\* get_transformation_summary; keys lists the fields the summary has
GetTransformationSummary(stats) ==
    LET names == DOMAIN stats
    IN  IF names = {}
        THEN [keys |-> {"tables_transformed", "total_records"},
              tables_transformed |-> 0, total_records |-> 0,
              total_original_records |-> 0, tables |-> <<>>]
        ELSE [keys |-> {"tables_transformed", "total_records",
                        "total_original_records", "tables"},
              tables_transformed |-> Cardinality(names),
              total_records |->
                  SumOf([t \in names |-> stats[t].transformed_rows], names),
              total_original_records |->
                  SumOf([t \in names |-> stats[t].original_rows], names),
              tables |-> [t \in names |->
                            [records |-> stats[t].transformed_rows,
                             columns |-> Len(stats[t].columns)]]]

\* a faulty create_combined_dataset whose total_records is assigned, not
\* added to, at every table
CreateCombinedDatasetLastCount(transformed_data, tables) ==
    LET names == Range(tables)
    IN  [metadata |->
            [dataset_name |-> "retail_db_combined",
             table_count |-> Cardinality(DOMAIN transformed_data),
             total_records |->
                 IF tables = <<>> THEN 0
                 ELSE Len(transformed_data[tables[Len(tables)]].data),
             tables |-> [t \in names |->
                           [record_count |-> Len(transformed_data[t].data),
                            columns |-> transformed_data[t].metadata.columns]]],
         tables |-> [t \in names |-> transformed_data[t].data]]


\* create_combined_dataset (without the timestamp); tables is the sequence
\* of the names of transformed_data, in the order of the dictionary
CreateCombinedDataset(transformed_data, tables) ==
    LET names == Range(tables)
    IN  [metadata |->
            [dataset_name |-> "retail_db_combined",
             table_count |-> Cardinality(DOMAIN transformed_data),
             total_records |->
                 SeqSum([i \in 1..Len(tables) |->
                            Len(transformed_data[tables[i]].data)]),
             tables |-> [t \in names |->
                           [record_count |-> Len(transformed_data[t].data),
                            columns |-> transformed_data[t].metadata.columns]]],
         tables |-> [t \in names |-> transformed_data[t].data]]

(***************************************************************************)
(* JSONWriter.  The output directory is `disk`: a function from file name  *)
(* (the table name, or "_combined" for the combined dataset) to            *)
(* [valid, records], valid saying that the file parses as JSON.            *)
(* write_stats maps the same names to the statistics of the last           *)
(* successful write.                                                       *)
(***************************************************************************)
CombinedName == "_combined"

\* the outcomes of one json.dump to a file: written whole, the open raising
\* OSError (the file is not touched), or the dump raising after the file was
\* opened for writing (a truncated file is left behind)
WriteOutcomes == {"ok", "open_fails", "dump_fails"}

\* the file a write leaves on the disk
DiskAfterWrite(d, name, outcome, record_count) ==
    CASE outcome = "ok" ->
            (name :> [valid |-> TRUE, records |-> record_count]) @@ d
      [] outcome = "dump_fails" ->
            (name :> [valid |-> FALSE, records |-> 0]) @@ d
      [] OTHER -> d

\* the entry write_table_json / write_combined_json leaves in write_stats
WriteStatsAfterWrite(stats, name, outcome, record_count) ==
    IF outcome = "ok"
    THEN (name :> [file_path |-> name, record_count |-> record_count]) @@ stats
    ELSE stats

\* get_write_summary; keys lists the fields the summary has
GetWriteSummary(stats) ==
    LET names == DOMAIN stats
    IN  IF names = {}
        THEN [keys |-> {"files_written", "total_size_bytes", "total_records"},
              files_written |-> 0, total_records |-> 0, files |-> {}]
        ELSE [keys |-> {"files_written", "total_size_bytes", "total_records",
                        "total_duration_seconds", "files"},
              files_written |-> Cardinality(names),
              total_records |-> SumOf([f \in names |-> stats[f].record_count], names),
              files |-> names]

\* print_write_report reads summary['total_duration_seconds'] and
\* summary['files']: KeyError when the summary lacks them
PrintWriteReportRaises(stats) ==
    ~({"files_written", "total_size_bytes", "total_records",
       "total_duration_seconds", "files"} \subseteq GetWriteSummary(stats).keys)

\* the files that validate_output_files may find gone, or may fail to open,
\* although their write went well: none, or one of the files of write_stats
ReadbackFailures(stats) == {{}} \cup {{f} : f \in DOMAIN stats}

\* validate_output_files: file name -> the file exists, opens and parses
ValidateOutputFiles(stats, d, unreadable) ==
    [f \in DOMAIN stats |-> f \in DOMAIN d /\ d[f].valid /\ f \notin unreadable]

(***************************************************************************)
(* State.                                                                  *)
(***************************************************************************)
VARIABLES
    \* the environment of the process: the configuration files and the CSV
    \* files, fixed for the lifetime of the process
    env,                  \* [settings_ok, schemas_ok, validate_data,
                          \*  individual_files, combined_file, tables]
    env_csv,              \* table name -> CSV file
    \* the process-wide singletons
    config_settings,      \* ConfigManager._settings: [loaded]
    config_schemas,       \* ConfigManager._schemas: [loaded, tables]
    schema_reads,         \* the number of times schemas.yaml was opened and parsed
    table_schemas,        \* SchemaReader._table_schemas: [loaded, tables]
    validation_results,   \* DataValidator.validation_results
    transformation_stats, \* DataTransformer.transformation_stats
    write_stats,          \* JSONWriter.write_stats
    disk,                 \* the files of the output directory
    \* one call of run_conversion
    run,                  \* the number of calls started
    pc,                   \* the position of the current call
    validate_arg,         \* the argument validate_data: "None", "True", "False"
    todo,                 \* the tables the loop of the phase has yet to take
    raw_data,             \* table name -> DataFrame
    run_validation,       \* table name -> results (validation_results of the run)
    transformed_data,     \* table name -> transformed table
    write_results,        \* the dictionary _write_json_files builds
    results,              \* what run_conversion returned: [returned, ...]
    exception,            \* the exception run_conversion raised, or ""
    \* history of the current call
    phase_log,            \* the phases entered, in order
    attempted,            \* phase -> tables the phase's loop took
    failed,               \* phase -> tables whose step raised
    read_error,           \* table -> the exception read_csv_file raised for it
    \* one call of validate_dataframe (SpecValidate)
    v_in,                 \* [schemas, table_name, df]
    v_done,
    v_out,                \* the run of validate_dataframe: [exc, res, completed]
    \* two calls of _calculate_quality_score (SpecScore)
    s_in,                 \* <<results, results>>
    s_done,
    s_out,                \* <<score, score>>
    \* one call of transform_dataframe on the DataFrame of v_in (SpecValidate)
    t_done,
    t_out,                \* the dictionary transform_dataframe returned
    \* one cell on its way from the CSV text to the JSON record (SpecCell)
    c_in,                 \* [dtype, source, text, value]
    c_pc,                 \* "raw", "typed", "json", "reread"
    c_typed,              \* the cell of the DataFrame: [ok, value]
    c_json,               \* the value of the record
    c_again,              \* the record's value read as a raw cell: [ok, value]
    \* one call of create_combined_dataset (SpecCombine)
    m_in,                 \* transformed_data: table name -> [metadata, data]
    m_done,
    m_out                 \* the combined dataset

env_vars == <<env, env_csv>>

singleton_vars == <<config_settings, config_schemas, schema_reads, table_schemas,
                    validation_results, transformation_stats, write_stats, disk>>

run_vars == <<run, pc, validate_arg, todo, raw_data, run_validation,
              transformed_data, write_results, results, exception,
              phase_log, attempted, failed, read_error>>

validate_vars == <<v_in, v_done, v_out>>

score_vars == <<s_in, s_done, s_out>>

transform_vars == <<t_done, t_out>>

cell_vars == <<c_in, c_pc, c_typed, c_json, c_again>>

combine_vars == <<m_in, m_done, m_out>>

\* the variables of the calls made outside run_conversion, apart from those
\* of validate_dataframe and _calculate_quality_score
unit_vars == <<combine_vars, transform_vars, cell_vars>>

vars == <<env_vars, singleton_vars, run_vars, validate_vars, score_vars,
          transform_vars, cell_vars, combine_vars>>

EmptyFn == [x \in {} |-> 0]

(***************************************************************************)
(* The environments of Spec: the schemas file, the settings and the CSV    *)
(* files of two tables.                                                    *)
(***************************************************************************)
TableOrder == <<"customers", "order_items">>

\* Scenario A of the specification: {id: Integer required pos 0,
\* name: Text required pos 1}
CustomersSchema ==
    [has_columns |-> TRUE, order |-> <<"id", "name">>,
     cfg |-> ("id" :> ColumnConfig("int64", 0, TRUE)) @@
             ("name" :> ColumnConfig("string", 1, TRUE))]

\* the YAML lists item_price before order_id; the positions say otherwise
OrderItemsSchema ==
    [has_columns |-> TRUE, order |-> <<"item_price", "order_id">>,
     cfg |-> ("item_price" :> ColumnConfig("float64", 1, FALSE)) @@
             ("order_id" :> ColumnConfig("int64", 0, TRUE))]

\* a schema whose column item_price has no 'type'
UntypedOrderItemsSchema ==
    [OrderItemsSchema EXCEPT !.cfg["item_price"].has_type = FALSE]

\* a schema whose column order_id has no 'position'
UnplacedOrderItemsSchema ==
    [OrderItemsSchema EXCEPT !.cfg["order_id"].has_position = FALSE]

\* a schema whose 'columns' is empty
EmptyOrderItemsSchema == [has_columns |-> TRUE, order |-> <<>>, cfg |-> EmptyFn]

\* a schema whose column name has no 'type'
UntypedCustomersSchema ==
    [CustomersSchema EXCEPT !.cfg["name"].has_type = FALSE]

SchemaFiles ==
    { ("customers" :> CustomersSchema) @@ ("order_items" :> OrderItemsSchema),
      ("customers" :> UntypedCustomersSchema) @@ ("order_items" :> OrderItemsSchema),
      ("customers" :> CustomersSchema) @@ ("order_items" :> UntypedOrderItemsSchema),
      ("customers" :> CustomersSchema) @@ ("order_items" :> UnplacedOrderItemsSchema),
      ("customers" :> CustomersSchema) @@ ("order_items" :> EmptyOrderItemsSchema),
      ("customers" :> CustomersSchema),
      EmptyFn }

AbsentFile == [exists |-> FALSE, lines |-> <<>>]

CsvFile(lines) == [exists |-> TRUE, lines |-> lines]

CsvFiles(table_name) ==
    IF table_name = "customers"
    THEN { AbsentFile,
           CsvFile(<< <<"1", "Alice">>, <<"2", "">> >>),
           CsvFile(<< <<"x", "Bob">> >>),
           CsvFile(<< <<"1", "2", "Alice">>, <<"2", "3", "Bob">> >>) }
    ELSE { AbsentFile,
           CsvFile(<< <<"1", "2">> >>),
           CsvFile(<< <<"1", "NULL">>, <<"-1", "3">>, <<"2">> >>) }

Environments ==
    { [settings_ok |-> so, schemas_ok |-> sc, validate_data |-> vd,
       individual_files |-> ind, combined_file |-> cmb, tables |-> tb] :
        so \in BOOLEAN, sc \in BOOLEAN, vd \in BOOLEAN, ind \in BOOLEAN,
        cmb \in BOOLEAN, tb \in SchemaFiles }

\* one environment stands for all those with a missing file
UsedEnvironments ==
    { e \in Environments :
        /\ ~e.settings_ok =>
              e.schemas_ok /\ e.validate_data /\ e.individual_files
              /\ e.combined_file /\ e.tables = EmptyFn
        /\ ~e.schemas_ok =>
              e.validate_data /\ e.individual_files /\ e.combined_file
              /\ e.tables = EmptyFn }

(***************************************************************************)
(* CSVToJSONConverter.run_conversion, one action per step.  The phases of  *)
(* the specification are read off the position pc.                         *)
(***************************************************************************)
Phase(p) == IF p = "ReadBegin" THEN "Read" ELSE p

PhaseNames == {"Init", "Read", "Validate", "Transform", "Write"}

NoResults ==
    [returned |-> FALSE, success |-> FALSE,
     summary |-> [tables_processed |-> 0, total_rows_read |-> 0,
                  total_rows_transformed |-> 0, files_written |-> 0,
                  combined_file_created |-> FALSE],
     phases |-> <<>>, output_files |-> <<>>]

NoWriteResults ==
    [has_individual_files |-> FALSE, individual_files |-> {},
     has_combined_file |-> FALSE, validation |-> EmptyFn]

\* the tables of a dictionary, in its insertion order
TablesOf(d) == SelectSeq(TableOrder, LAMBDA t : t \in DOMAIN d)

\* config.get_setting(key, default) once the settings are loaded
GetSetting(key) ==
    CASE key = "processing.validate_data" -> env.validate_data
      [] key = "output.individual_files"  -> env.individual_files
      [] key = "output.combined_file"     -> env.combined_file

\* entering a phase
Enter(p) ==
    /\ pc' = p
    /\ phase_log' = IF Phase(p) = Phase(pc) THEN phase_log
                    ELSE Append(phase_log, Phase(p))

\* the exception leaves run_conversion
Raise(e) ==
    /\ Enter("Failed")
    /\ exception' = e
    /\ results' = NoResults

\* a call of run_conversion begins (line 50)
StartRun ==
    /\ pc \in {"Idle", "Done", "Failed"}
    /\ run < MaxRuns
    /\ run' = run + 1
    /\ \E arg \in {"None", "True", "False"} : validate_arg' = arg
    /\ pc' = "Init"
    /\ phase_log' = <<"Init">>
    /\ attempted' = [p \in PhaseNames |-> {}]
    /\ failed' = [p \in PhaseNames |-> {}]
    /\ read_error' = EmptyFn
    /\ todo' = <<>>
    /\ raw_data' = EmptyFn
    /\ run_validation' = EmptyFn
    /\ transformed_data' = EmptyFn
    /\ write_results' = NoWriteResults
    /\ results' = NoResults
    /\ exception' = ""
    /\ UNCHANGED <<env_vars, unit_vars, singleton_vars, validate_vars, score_vars>>

\* a faulty load_schemas that opens and parses schemas.yaml at every call
InitializeConfigUncached ==
    /\ pc = "Init"
    /\ IF ~config_settings.loaded /\ ~env.settings_ok
       THEN /\ Raise("FileNotFoundError")
            /\ UNCHANGED <<config_settings, config_schemas, schema_reads>>
       ELSE /\ config_settings' = [loaded |-> TRUE]
            /\ IF ~env.schemas_ok
               THEN /\ Raise("FileNotFoundError")
                    /\ UNCHANGED <<config_schemas, schema_reads>>
               ELSE /\ config_schemas' = [loaded |-> TRUE, tables |-> env.tables]
                    /\ schema_reads' = schema_reads + 1
                    /\ Enter("ReadBegin")
                    /\ UNCHANGED <<results, exception>>
    /\ UNCHANGED <<env_vars, unit_vars, table_schemas, validation_results,
                   transformation_stats, write_stats, disk, run, validate_arg,
                   todo, raw_data, run_validation, transformed_data,
                   write_results, attempted, failed, read_error, validate_vars, score_vars>>

\* _initialize_config: load_settings, then load_schemas
InitializeConfig ==
    /\ pc = "Init"
    /\ IF ~config_settings.loaded /\ ~env.settings_ok
       THEN /\ Raise("FileNotFoundError")
            /\ UNCHANGED <<config_settings, config_schemas, schema_reads>>
       ELSE /\ config_settings' = [loaded |-> TRUE]
            /\ IF ~config_schemas.loaded /\ ~env.schemas_ok
               THEN /\ Raise("FileNotFoundError")
                    /\ UNCHANGED <<config_schemas, schema_reads>>
               ELSE /\ config_schemas' =
                        IF config_schemas.loaded THEN config_schemas
                        ELSE [loaded |-> TRUE, tables |-> env.tables]
                    /\ schema_reads' =
                        IF config_schemas.loaded THEN schema_reads
                        ELSE schema_reads + 1
                    /\ Enter("ReadBegin")
                    /\ UNCHANGED <<results, exception>>
    /\ UNCHANGED <<env_vars, unit_vars, table_schemas, validation_results,
                   transformation_stats, write_stats, disk, run, validate_arg,
                   todo, raw_data, run_validation, transformed_data,
                   write_results, attempted, failed, read_error, validate_vars, score_vars>>

\* read_all_tables up to its loop: get_available_tables, load_all_schemas
BeginRead ==
    /\ pc = "ReadBegin"
    /\ table_schemas' = IF table_schemas.loaded THEN table_schemas
                        ELSE [loaded |-> TRUE, tables |-> config_schemas.tables]
    /\ todo' = TablesOf(table_schemas'.tables)
    /\ Enter("Read")
    /\ UNCHANGED <<env_vars, unit_vars, config_settings, config_schemas, schema_reads, validation_results,
                   transformation_stats, write_stats, disk, run, validate_arg,
                   raw_data, run_validation, transformed_data, write_results,
                   results, exception, attempted, failed, read_error, validate_vars,
                   score_vars>>

\* a faulty read_all_tables that hands on the empty DataFrame of a table whose
\* read failed
ReadTableKeepingFailed ==
    /\ pc = "Read"
    /\ todo # <<>>
    /\ \E table_name \in {Head(todo)} :
       \E out \in {ReadCsvFile(table_schemas.tables, table_name, env_csv[table_name])} :
           /\ attempted' = [attempted EXCEPT !["Read"] = @ \cup {table_name}]
           /\ raw_data' = (table_name :> out.df) @@ raw_data
           /\ IF out.ok
              THEN UNCHANGED <<failed, read_error>>
              ELSE /\ failed' = [failed EXCEPT !["Read"] = @ \cup {table_name}]
                   /\ read_error' = (table_name :> out.error) @@ read_error
    /\ todo' = Tail(todo)
    /\ UNCHANGED <<env_vars, unit_vars, singleton_vars, run, pc, validate_arg,
                   run_validation, transformed_data, write_results, results,
                   exception, phase_log, validate_vars, score_vars>>


\* one turn of the loop of read_all_tables
ReadTable ==
    /\ pc = "Read"
    /\ todo # <<>>
    /\ \E table_name \in {Head(todo)} :
       \E out \in {ReadCsvFile(table_schemas.tables, table_name, env_csv[table_name])} :
           /\ attempted' = [attempted EXCEPT !["Read"] = @ \cup {table_name}]
           /\ IF out.ok
              THEN /\ raw_data' = (table_name :> out.df) @@ raw_data
                   /\ UNCHANGED <<failed, read_error>>
              ELSE /\ failed' = [failed EXCEPT !["Read"] = @ \cup {table_name}]
                   /\ read_error' = (table_name :> out.error) @@ read_error
                   /\ UNCHANGED raw_data
    /\ todo' = Tail(todo)
    /\ UNCHANGED <<env_vars, unit_vars, singleton_vars, run, pc, validate_arg,
                   run_validation, transformed_data, write_results, results,
                   exception, phase_log, validate_vars, score_vars>>

\* should_validate of run_conversion (line 65)
ShouldValidate ==
    IF validate_arg # "None" THEN validate_arg = "True"
    ELSE GetSetting("processing.validate_data")

\* the end of _read_csv_data and the choice of phase 3
ReadEnd ==
    /\ pc = "Read"
    /\ todo = <<>>
    /\ IF DOMAIN raw_data = {}
       THEN /\ Raise("ValueError: No CSV data was successfully read")
            /\ UNCHANGED todo
       ELSE /\ Enter(IF ShouldValidate THEN "Validate" ELSE "Transform")
            /\ todo' = TablesOf(raw_data)
            /\ UNCHANGED <<results, exception>>
    /\ UNCHANGED <<env_vars, unit_vars, singleton_vars, run, validate_arg, raw_data,
                   run_validation, transformed_data, write_results, attempted,
                   failed, read_error, validate_vars, score_vars>>

\* one turn of the loop of _validate_data
ValidateTable ==
    /\ pc = "Validate"
    /\ todo # <<>>
    /\ \E table_name \in {Head(todo)} :
       \E result \in {ValidateDataframe(table_schemas.tables, raw_data[table_name],
                                        table_name)} :
           /\ run_validation' = (table_name :> result) @@ run_validation
           /\ validation_results' = (table_name :> result) @@ validation_results
           /\ attempted' = [attempted EXCEPT !["Validate"] = @ \cup {table_name}]
    /\ todo' = Tail(todo)
    /\ UNCHANGED <<env_vars, unit_vars, config_settings, config_schemas, schema_reads, table_schemas,
                   transformation_stats, write_stats, disk, run, pc,
                   validate_arg, raw_data, transformed_data, write_results,
                   results, exception, phase_log, failed, read_error, validate_vars,
                   score_vars>>

\* a faulty _validate_data that leaves its loop before the last table
ValidateEndEarly ==
    /\ pc = "Validate"
    /\ Enter("Transform")
    /\ todo' = TablesOf(raw_data)
    /\ UNCHANGED <<env_vars, unit_vars, singleton_vars, run, validate_arg, raw_data,
                   run_validation, transformed_data, write_results, results,
                   exception, attempted, failed, read_error, validate_vars, score_vars>>

\* the end of _validate_data
ValidateEnd ==
    /\ pc = "Validate"
    /\ todo = <<>>
    /\ Enter("Transform")
    /\ todo' = TablesOf(raw_data)
    /\ UNCHANGED <<env_vars, unit_vars, singleton_vars, run, validate_arg, raw_data,
                   run_validation, transformed_data, write_results, results,
                   exception, attempted, failed, read_error, validate_vars, score_vars>>

\* a faulty transform_all_tables that passes over the tables in which the
\* validation of the run found an error
TransformTableIfValid ==
    /\ pc = "Transform"
    /\ todo # <<>>
    /\ \E table_name \in {Head(todo)} :
           IF table_name \in DOMAIN run_validation
              /\ run_validation[table_name].errors # <<>>
           THEN UNCHANGED <<attempted, failed, transformed_data, transformation_stats>>
           ELSE /\ attempted' = [attempted EXCEPT !["Transform"] = @ \cup {table_name}]
                /\ \/ \E result \in {TransformDataframe(raw_data[table_name], table_name)} :
                      /\ transformed_data' = (table_name :> result) @@ transformed_data
                      /\ transformation_stats' =
                             (table_name :> TransformationStats(raw_data[table_name], result))
                                 @@ transformation_stats
                      /\ UNCHANGED failed
                   \/ /\ failed' = [failed EXCEPT !["Transform"] = @ \cup {table_name}]
                      /\ UNCHANGED <<transformed_data, transformation_stats>>
    /\ todo' = Tail(todo)
    /\ UNCHANGED <<env_vars, unit_vars, config_settings, config_schemas, schema_reads, table_schemas,
                   validation_results, write_stats, disk, run, pc, validate_arg,
                   raw_data, run_validation, write_results, results, exception,
                   phase_log, read_error, validate_vars, score_vars>>


\* one turn of the loop of transform_all_tables; pandas may raise
TransformTable ==
    /\ pc = "Transform"
    /\ todo # <<>>
    /\ \E table_name \in {Head(todo)} :
           /\ attempted' = [attempted EXCEPT !["Transform"] = @ \cup {table_name}]
           /\ \/ \E result \in {TransformDataframe(raw_data[table_name], table_name)} :
                 /\ transformed_data' = (table_name :> result) @@ transformed_data
                 /\ transformation_stats' =
                        (table_name :> TransformationStats(raw_data[table_name], result))
                            @@ transformation_stats
                 /\ UNCHANGED failed
              \/ /\ failed' = [failed EXCEPT !["Transform"] = @ \cup {table_name}]
                 /\ UNCHANGED <<transformed_data, transformation_stats>>
    /\ todo' = Tail(todo)
    /\ UNCHANGED <<env_vars, unit_vars, config_settings, config_schemas, schema_reads, table_schemas,
                   validation_results, write_stats, disk, run, pc, validate_arg,
                   raw_data, run_validation, write_results, results, exception,
                   phase_log, read_error, validate_vars, score_vars>>

\* a faulty _transform_data that goes on with no table transformed
TransformEndLenient ==
    /\ pc = "Transform"
    /\ todo = <<>>
    /\ Enter("Write")
    /\ todo' = IF GetSetting("output.individual_files")
               THEN TablesOf(transformed_data) ELSE <<>>
    /\ write_results' =
           [NoWriteResults EXCEPT !.has_individual_files =
                GetSetting("output.individual_files")]
    /\ UNCHANGED <<env_vars, unit_vars, singleton_vars, run, validate_arg, raw_data,
                   run_validation, transformed_data, attempted, failed, read_error,
                   results, exception, validate_vars, score_vars>>

\* the end of _transform_data and the start of _write_json_files
TransformEnd ==
    /\ pc = "Transform"
    /\ todo = <<>>
    /\ IF DOMAIN transformed_data = {}
       THEN /\ Raise("ValueError: No data was successfully transformed")
            /\ UNCHANGED <<todo, write_results>>
       ELSE /\ Enter("Write")
            /\ todo' = IF GetSetting("output.individual_files")
                       THEN TablesOf(transformed_data) ELSE <<>>
            /\ write_results' =
                   [NoWriteResults EXCEPT !.has_individual_files =
                        GetSetting("output.individual_files")]
            /\ UNCHANGED <<results, exception>>
    /\ UNCHANGED <<env_vars, unit_vars, singleton_vars, run, validate_arg, raw_data,
                   run_validation, transformed_data, attempted, failed, read_error,
                   validate_vars, score_vars>>

\* one turn of the loop of write_all_tables
WriteTable ==
    /\ pc = "Write"
    /\ todo # <<>>
    /\ \E table_name \in {Head(todo)} :
       \E record_count \in {Len(transformed_data[table_name].data)} :
           /\ attempted' = [attempted EXCEPT !["Write"] = @ \cup {table_name}]
           /\ \E outcome \in WriteOutcomes :
                /\ disk' = DiskAfterWrite(disk, table_name, outcome, record_count)
                /\ write_stats' = WriteStatsAfterWrite(write_stats, table_name,
                                                       outcome, record_count)
                /\ IF outcome = "ok"
                   THEN /\ write_results' =
                               [write_results EXCEPT !.individual_files =
                                    @ \cup {table_name}]
                        /\ UNCHANGED failed
                   ELSE /\ failed' = [failed EXCEPT !["Write"] = @ \cup {table_name}]
                        /\ UNCHANGED write_results
    /\ todo' = Tail(todo)
    /\ UNCHANGED <<env_vars, unit_vars, config_settings, config_schemas, schema_reads, table_schemas,
                   validation_results, transformation_stats, run, pc,
                   validate_arg, raw_data, run_validation, transformed_data,
                   results, exception, phase_log, read_error, validate_vars, score_vars>>

\* a faulty _compile_results that reports the run as unsuccessful
CompileResultsUnsuccessful(raw, validation, transformed, written, tstats, wstats) ==
    [NoResults EXCEPT !.returned = TRUE, !.output_files = written]

\* _compile_results (without the timestamps)
CompileResults(raw, validation, transformed, written, tstats, wstats) ==
    LET rows_read == SumOf([t \in DOMAIN raw |-> DfLen(raw[t])], DOMAIN raw)
    IN  [returned |-> TRUE,
         success |-> TRUE,
         summary |->
            [tables_processed |-> Cardinality(DOMAIN raw),
             total_rows_read |-> rows_read,
             total_rows_transformed |->
                 SumOf([t \in DOMAIN transformed |-> Len(transformed[t].data)],
                       DOMAIN transformed),
             files_written |->
                 IF written.has_individual_files
                 THEN Cardinality(written.individual_files) ELSE 0,
             combined_file_created |-> written.has_combined_file],
         phases |->
            [reading |-> [tables_read |-> Cardinality(DOMAIN raw),
                          total_rows |-> rows_read],
             validation |-> [enabled |-> DOMAIN validation # {},
                             results |-> validation],
             transformation |-> GetTransformationSummary(tstats),
             writing |-> GetWriteSummary(wstats)],
         output_files |-> written]

\* the end of _write_json_files once the files are written: the write
\* report, the readback of the files, and _compile_results
FinishRun(written, wstats, d) ==
    IF PrintWriteReportRaises(wstats)
    THEN /\ Raise("KeyError: total_duration_seconds")
         /\ UNCHANGED write_results
    ELSE /\ \E unreadable \in ReadbackFailures(wstats) :
                write_results' =
                    [written EXCEPT
                        !.validation = ValidateOutputFiles(wstats, d, unreadable)]
         /\ results' = CompileResults(raw_data, run_validation, transformed_data,
                                      write_results', transformation_stats, wstats)
         /\ Enter("Done")
         /\ UNCHANGED exception

\* the rest of _write_json_files after the loop over the tables: the
\* combined file, then FinishRun
WriteEnd ==
    /\ pc = "Write"
    /\ todo = <<>>
    /\ IF GetSetting("output.combined_file")
       THEN \E combined \in {CreateCombinedDataset(transformed_data,
                                                   TablesOf(transformed_data))} :
            \E total \in {combined.metadata.total_records} :
                \E outcome \in WriteOutcomes :
                  /\ disk' = DiskAfterWrite(disk, CombinedName, outcome, total)
                  /\ write_stats' = WriteStatsAfterWrite(write_stats, CombinedName,
                                                         outcome, total)
                  /\ IF outcome = "ok"
                     THEN FinishRun([write_results EXCEPT !.has_combined_file = TRUE],
                                    write_stats', disk')
                     ELSE /\ Raise("OSError")
                          /\ UNCHANGED write_results
       ELSE /\ UNCHANGED <<disk, write_stats>>
            /\ FinishRun(write_results, write_stats, disk)
    /\ UNCHANGED <<env_vars, unit_vars, config_settings, config_schemas, schema_reads, table_schemas,
                   validation_results, transformation_stats, run, validate_arg,
                   todo, raw_data, run_validation, transformed_data, attempted,
                   failed, read_error, validate_vars, score_vars>>

(***************************************************************************)
(* Spec: the orchestrator.                                                 *)
(***************************************************************************)
IdleValidate ==
    /\ v_in = [schemas |-> EmptyFn, table_name |-> "",
               df |-> [columns |-> <<>>, dtypes |-> EmptyFn, rows |-> <<>>,
                       index |-> <<>>]]
    /\ v_done = FALSE
    /\ v_out = [exc |-> FALSE, res |-> InitialResults(v_in.df, ""), completed |-> <<>>]

IdleScore ==
    /\ s_in = <<>>
    /\ s_done = FALSE
    /\ s_out = <<>>

NoTransform ==
    [metadata |-> GenerateMetadata([columns |-> <<>>, dtypes |-> EmptyFn,
                                    rows |-> <<>>, index |-> <<>>], ""),
     data |-> <<>>]

IdleTransform ==
    /\ t_done = FALSE
    /\ t_out = NoTransform

IdleCell ==
    /\ c_in = [dtype |-> "string", source |-> "raw", text |-> "", value |-> NA]
    /\ c_pc = "idle"
    /\ c_typed = [ok |-> FALSE, value |-> NA]
    /\ c_json = JsonNull
    /\ c_again = [ok |-> FALSE, value |-> NA]

IdleCombine ==
    /\ m_in = EmptyFn
    /\ m_done = FALSE
    /\ m_out = CreateCombinedDataset(EmptyFn, <<>>)

IdleSingletons ==
    /\ config_settings = [loaded |-> FALSE]
    /\ config_schemas = [loaded |-> FALSE, tables |-> EmptyFn]
    /\ schema_reads = 0
    /\ table_schemas = [loaded |-> FALSE, tables |-> EmptyFn]
    /\ validation_results = EmptyFn
    /\ transformation_stats = EmptyFn
    /\ write_stats = EmptyFn
    /\ disk = EmptyFn

IdleRun ==
    /\ run = 0
    /\ pc = "Idle"
    /\ validate_arg = "None"
    /\ todo = <<>>
    /\ raw_data = EmptyFn
    /\ run_validation = EmptyFn
    /\ transformed_data = EmptyFn
    /\ write_results = NoWriteResults
    /\ results = NoResults
    /\ exception = ""
    /\ phase_log = <<>>
    /\ attempted = [p \in PhaseNames |-> {}]
    /\ failed = [p \in PhaseNames |-> {}]
    /\ read_error = EmptyFn

Init ==
    /\ env \in UsedEnvironments
    /\ env_csv \in [Range(TableOrder) -> UNION {CsvFiles(t) : t \in Range(TableOrder)}]
    /\ \A t \in Range(TableOrder) : env_csv[t] \in CsvFiles(t)
    /\ IdleSingletons
    /\ IdleRun
    /\ IdleValidate
    /\ IdleScore
    /\ IdleTransform
    /\ IdleCell
    /\ IdleCombine

Next ==
    \/ StartRun
    \/ InitializeConfig
    \/ BeginRead
    \/ ReadTable
    \/ ReadEnd
    \/ ValidateTable
    \/ ValidateEnd
    \/ TransformTable
    \/ TransformEnd
    \/ WriteTable
    \/ WriteEnd

Spec == Init /\ [][Next]_vars

(***************************************************************************)
(* SpecValidate: one call of DataValidator.validate_dataframe on a         *)
(* DataFrame and a table name that any caller may hand it, with the        *)
(* schemas the SchemaReader holds.                                         *)
(***************************************************************************)
\* the dtype read_csv gives a column of the model's schemas
NaturalDtype(c) == PandasDtype(ColumnConfig(TypeOfName(c), 0, FALSE))

\* another dtype a caller's DataFrame may carry for the column
OtherDtype(c) ==
    CASE NaturalDtype(c) = "Int64"   -> "float64"
      [] NaturalDtype(c) = "float64" -> "Int64"
      [] OTHER                       -> "object"

\* the cells of a column of the given dtype: a null, a value the range
\* check reports, and a value no check reports
CellValues(dtype) ==
    CASE dtype = "Int64"   -> {NA, IntV(0 - 1), IntV(1)}
      [] dtype = "float64" -> {NaN, FloatV(0 - 1), FloatV(1)}
      [] dtype = "string"  -> {NA, StrV(""), StrV("Alice")}
      [] OTHER             -> {None, StrV(""), StrV("Alice")}

AllDtypes == {"Int64", "float64", "string", "object"}

AllCells == UNION {CellValues(d) : d \in AllDtypes}

\* the column layouts of the DataFrames
FrameLayouts ==
    { <<>>, <<"id">>, <<"name">>, <<"id", "name">>,
      <<"order_id", "item_price">>, <<"order_id", "name">> }

\* the index of a DataFrame of n rows: the default one, or the labels 1..n
\* that read_csv takes from a leading column of the file
FrameIndexes(n) == {RangeIndex(n), [i \in 1..n |-> <<IntV(i)>>]}

\* the DataFrames with the given columns and at most MaxRows rows
DataFramesOver(cols) ==
    UNION { { [columns |-> cols, dtypes |-> d, rows |-> ri[1], index |-> ri[2]] :
                ri \in UNION { [1..n -> { row \in [Range(cols) -> AllCells] :
                                            \A c \in Range(cols) :
                                                row[c] \in CellValues(d[c]) }]
                                  \X FrameIndexes(n) :
                               n \in 0..MaxRows } } :
            d \in { dd \in [Range(cols) -> AllDtypes] :
                      \A c \in Range(cols) :
                          dd[c] \in {NaturalDtype(c), OtherDtype(c)} } }

\* the column layouts of the schemas
SchemaLayouts == { <<"id", "name">>, <<"order_id", "item_price">> }

\* the table schemas over a layout: every choice of the required flags
TableSchemasOver(cols) ==
    { [has_columns |-> TRUE, order |-> cols,
       cfg |-> [c \in Range(cols) |->
                  ColumnConfig(TypeOfName(c),
                               (CHOOSE j \in 1..Len(cols) : cols[j] = c) - 1,
                               req[c])]] :
        req \in [Range(cols) -> BOOLEAN] }

\* "orders" is the table of the schemas, "payments" is unknown to them
ValidateInputs ==
    { [schemas |-> ("orders" :> sch), table_name |-> t, df |-> df] :
        sch \in UNION {TableSchemasOver(cols) : cols \in SchemaLayouts},
        t \in {"orders", "payments"},
        df \in UNION {DataFramesOver(cols) : cols \in FrameLayouts} }

\* the environment of a process that runs no conversion
IdleEnvironment ==
    /\ env = [settings_ok |-> FALSE, schemas_ok |-> TRUE, validate_data |-> TRUE,
              individual_files |-> TRUE, combined_file |-> TRUE, tables |-> EmptyFn]
    /\ env_csv = [t \in Range(TableOrder) |-> AbsentFile]

InitValidate ==
    /\ IdleEnvironment
    /\ IdleSingletons
    /\ IdleRun
    /\ IdleScore
    /\ IdleCell
    /\ IdleCombine
    /\ IdleTransform
    /\ v_in \in ValidateInputs
    /\ v_done = FALSE
    /\ v_out = [exc |-> FALSE, res |-> InitialResults(v_in.df, v_in.table_name),
                completed |-> <<>>]

\* a faulty validate_dataframe that also clears the statistics the
\* transformer keeps
ValidateCallClearing ==
    /\ \E out \in {ValidateRun(v_in.schemas, v_in.df, v_in.table_name)} :
           /\ v_out' = out
           /\ validation_results' =
                  (v_in.table_name :> out.res) @@ validation_results
    /\ v_done' = TRUE
    /\ transformation_stats' = EmptyFn
    /\ UNCHANGED <<env_vars, unit_vars, config_settings,
                   config_schemas, schema_reads, table_schemas,
                   write_stats, disk, run_vars, v_in, score_vars>>


\* validate_dataframe(df, table_name), with the store of its result; the
\* caller may validate the DataFrame again
ValidateCall ==
    /\ \E out \in {ValidateRun(v_in.schemas, v_in.df, v_in.table_name)} :
           /\ v_out' = out
           /\ validation_results' =
                  (v_in.table_name :> out.res) @@ validation_results
    /\ v_done' = TRUE
    /\ UNCHANGED <<env_vars, unit_vars, config_settings,
                   config_schemas, schema_reads, table_schemas, transformation_stats,
                   write_stats, disk, run_vars, v_in, score_vars>>

\* a faulty transform_dataframe that cleans the caller's DataFrame in place
TransformCallInPlace ==
    /\ \E df_clean \in {CleanDataframe(v_in.df, v_in.table_name)} :
       \E result \in {[metadata |-> GenerateMetadata(df_clean, v_in.table_name),
                       data |-> ConvertToRecords(df_clean, v_in.table_name)]} :
           /\ t_out' = result
           /\ v_in' = [v_in EXCEPT !.df = df_clean]
           /\ transformation_stats' =
                  (v_in.table_name :> TransformationStats(v_in.df, result))
                      @@ transformation_stats
    /\ t_done' = TRUE
    /\ UNCHANGED <<env_vars, combine_vars, cell_vars, config_settings,
                   config_schemas, schema_reads, table_schemas,
                   validation_results, write_stats, disk, run_vars, v_done,
                   v_out, score_vars>>

\* transform_dataframe(df, table_name) on the same DataFrame, before or
\* after it is validated (run_conversion may skip the validation), any
\* number of times
TransformCall ==
    /\ \E result \in {TransformDataframe(v_in.df, v_in.table_name)} :
           /\ t_out' = result
           /\ transformation_stats' =
                  (v_in.table_name :> TransformationStats(v_in.df, result))
                      @@ transformation_stats
    /\ t_done' = TRUE
    /\ UNCHANGED <<env_vars, combine_vars, cell_vars, config_settings,
                   config_schemas, schema_reads, table_schemas, validation_results, write_stats, disk,
                   run_vars, validate_vars, score_vars>>

NextValidate ==
    \/ ValidateCall
    \/ TransformCall

SpecValidate == InitValidate /\ [][NextValidate]_vars

(***************************************************************************)
(* SpecScore: _calculate_quality_score on results dictionaries.  The input *)
(* is <<a, b, a_error, a_warning, a_issue>>: a is any results dictionary,  *)
(* b has the warnings and issues of a and any number of errors, and the    *)
(* last three are a with one more error, warning and issue.                *)
(***************************************************************************)
\* a findings list of length n
Findings(n) == [i \in 1..n |-> Finding("finding", {}, i)]

ScoredResults(e, w, i) ==
    [table_name |-> "orders", total_rows |-> 0, valid_rows |-> 0,
     issues |-> Findings(i), warnings |-> Findings(w), errors |-> Findings(e),
     data_quality_score |-> 0]

ScoreInputs ==
    { << ScoredResults(e, w, i), ScoredResults(e2, w, i),
         ScoredResults(e + 1, w, i), ScoredResults(e, w + 1, i),
         ScoredResults(e, w, i + 1) >> :
        e \in 0..MaxFindings, w \in 0..MaxFindings, i \in 0..MaxFindings,
        e2 \in 0..MaxFindings }

InitScore ==
    /\ IdleEnvironment
    /\ IdleSingletons
    /\ IdleRun
    /\ IdleValidate
    /\ IdleTransform
    /\ IdleCell
    /\ IdleCombine
    /\ s_in \in ScoreInputs
    /\ s_done = FALSE
    /\ s_out = <<>>

\* _calculate_quality_score(results) for each results dictionary of the input
ScoreCall ==
    /\ ~s_done
    /\ s_out' = [k \in 1..Len(s_in) |-> CalculateQualityScore(s_in[k])]
    /\ s_done' = TRUE
    /\ UNCHANGED <<env_vars, unit_vars, singleton_vars, run_vars, validate_vars, s_in>>

NextScore == ScoreCall

SpecScore == InitScore /\ [][NextScore]_vars

(***************************************************************************)
(* SpecCell: one cell on its way through the pipeline.  A raw cell is the  *)
(* text of a CSV field, read by read_csv_file into a column of the dtype   *)
(* of its schema type; a native cell is a value of a DataFrame handed to   *)
(* transform_dataframe as it is.  The cell is cleaned and put into a       *)
(* record; a null of the record is written by json.dump as the text null,  *)
(* which is then read as a raw cell of the same column.                    *)
(***************************************************************************)
\* the types a column of schemas.yaml is given
SchemaTypes == {"int64", "float64", "string"}

\* the texts of the raw cells
RawTexts ==
    NaValues \cup DefaultNaValues \cup DOMAIN NumberLiterals
        \cup {"Alice", "NONE", "Null", " "}

CellInputs ==
    { [dtype |-> PandasDtype(ColumnConfig(t, 0, FALSE)), source |-> "raw",
       text |-> x, value |-> NA] : t \in SchemaTypes, x \in RawTexts }
    \cup
    UNION { { [dtype |-> d, source |-> "native", text |-> "", value |-> v] :
                v \in CellValues(d) } : d \in AllDtypes }

InitCell ==
    /\ IdleEnvironment
    /\ IdleSingletons
    /\ IdleRun
    /\ IdleValidate
    /\ IdleScore
    /\ IdleTransform
    /\ IdleCombine
    /\ c_in \in CellInputs
    /\ c_pc = IF c_in.source = "raw" THEN "raw" ELSE "typed"
    /\ c_typed = [ok |-> c_in.source = "native", value |-> c_in.value]
    /\ c_json = JsonNull
    /\ c_again = [ok |-> FALSE, value |-> NA]

\* read_csv on the cell: the read of the table fails when the text does not
\* convert to the dtype
CoerceCell ==
    /\ c_pc = "raw"
    /\ c_typed' = ParseCell(c_in.dtype, c_in.text)
    /\ c_pc' = IF c_typed'.ok THEN "typed" ELSE "failed"
    /\ UNCHANGED <<env_vars, combine_vars, transform_vars, singleton_vars, run_vars,
                   validate_vars, score_vars, c_in, c_json, c_again>>

\* _clean_dataframe and _convert_to_records on the cell
TransformCell ==
    /\ c_pc = "typed"
    /\ c_json' = RecordValue(CleanCell(c_in.dtype, c_typed.value))
    /\ c_pc' = "json"
    /\ UNCHANGED <<env_vars, combine_vars, transform_vars, singleton_vars, run_vars,
                   validate_vars, score_vars, c_in, c_typed, c_again>>

\* the text json.dump writes for None
JsonNullText == "null"

\* the null of the record, as json.dump writes it, read as a raw cell
RereadNull ==
    /\ c_pc = "json"
    /\ c_json = JsonNull
    /\ c_again' = ParseCell(c_in.dtype, JsonNullText)
    /\ c_pc' = "reread"
    /\ UNCHANGED <<env_vars, combine_vars, transform_vars, singleton_vars, run_vars,
                   validate_vars, score_vars, c_in, c_typed, c_json>>

NextCell ==
    \/ CoerceCell
    \/ TransformCell
    \/ RereadNull

SpecCell == InitCell /\ [][NextCell]_vars

(***************************************************************************)
(* SpecCombine: one call of create_combined_dataset on the transformed     *)
(* data of up to three tables, of up to MaxRecords records each.           *)
(***************************************************************************)
CombineTables == <<"customers", "order_items", "orders">>

\* a transformed table of n records
TransformedOf(table_name, n) ==
    TransformDataframe([columns |-> <<"id">>, dtypes |-> ("id" :> "Int64"),
                        rows |-> [i \in 1..n |-> ("id" :> IntV(i))],
                        index |-> RangeIndex(n)],
                       table_name)

CombineInputs ==
    UNION { { [t \in names |-> TransformedOf(t, count[t])] :
                count \in [names -> 0..MaxRecords] } :
            names \in SUBSET Range(CombineTables) }

InitCombine ==
    /\ IdleEnvironment
    /\ IdleSingletons
    /\ IdleRun
    /\ IdleValidate
    /\ IdleScore
    /\ IdleTransform
    /\ IdleCell
    /\ m_in \in CombineInputs
    /\ m_done = FALSE
    /\ m_out = CreateCombinedDataset(EmptyFn, <<>>)

\* create_combined_dataset(transformed_data)
CombineCall ==
    /\ ~m_done
    /\ m_out' = CreateCombinedDataset(m_in,
                    SelectSeq(CombineTables, LAMBDA t : t \in DOMAIN m_in))
    /\ m_done' = TRUE
    /\ UNCHANGED <<env_vars, transform_vars, cell_vars, singleton_vars, run_vars,
                   validate_vars, score_vars, m_in>>

NextCombine == CombineCall

SpecCombine == InitCombine /\ [][NextCombine]_vars

(***************************************************************************)
(* Properties of run_conversion, checked under Spec.                       *)
(***************************************************************************)
PhaseOrder == <<"Init", "Read", "Validate", "Transform", "Write", "Done">>

\* the phases a call that completes goes through
ExpectedPhases ==
    SelectSeq(PhaseOrder, LAMBDA p : p # "Validate" \/ ShouldValidate)

IsPrefix(s, t) == Len(s) <= Len(t) /\ SubSeq(t, 1, Len(s)) = s

\* the phases the current call entered, without the terminal Failed
EnteredPhases ==
    IF phase_log # <<>> /\ phase_log[Len(phase_log)] = "Failed"
    THEN SubSeq(phase_log, 1, Len(phase_log) - 1)
    ELSE phase_log

\* the tables the loop of a phase has to take
PhaseInput(p) ==
    CASE p = "Read" -> Range(TablesOf(table_schemas.tables))
      [] p \in {"Validate", "Transform"} -> DOMAIN raw_data
      [] p = "Write" -> IF env.individual_files THEN DOMAIN transformed_data
                        ELSE {}
      [] OTHER -> {}

\* the tables a phase handed on
SuccessSet(p) ==
    CASE p = "Read" -> DOMAIN raw_data
      [] p = "Transform" -> DOMAIN transformed_data
      [] p = "Write" -> write_results.individual_files
      [] OTHER -> {}

\* a phase that was left has taken every table; a phase not yet entered
\* has taken none
PhasesRunToCompletion ==
    \A p \in PhaseNames :
        /\ attempted[p] \subseteq PhaseInput(p)
        /\ p \notin Range(phase_log) => attempted[p] = {}
        /\ p \in Range(phase_log) /\ p # Phase(pc) => attempted[p] = PhaseInput(p)

\* C1: in every call of run_conversion the phases are entered in the order
\* Init, Read, Validate (only when validation is enabled), Transform, Write,
\* Done, each at most once, and a phase has taken all its tables before the
\* next phase takes any.
PhasesInOrder ==
    /\ IsPrefix(EnteredPhases, ExpectedPhases)
    /\ PhasesRunToCompletion

\* a call with validation that ran to Done over two tables
PhasesInOrderWitness ==
    /\ pc = "Done"
    /\ phase_log = PhaseOrder
    /\ Cardinality(attempted["Validate"]) = 2
    /\ Cardinality(attempted["Write"]) = 2

\* at least one table came through every stage that took tables
SomeTableSurvived ==
    /\ "Write" \in Range(phase_log)
    /\ env.individual_files => write_results.individual_files # {}

\* C2: a failure of one table in Read, Transform or Write stays inside the
\* phase: the table is not in what the phase hands on, the phase still takes
\* every other table, and the call ends with success = true provided at least
\* one table survived.  (A failure to write the combined file is no table's
\* failure and is left out.)
TableFailuresAreIsolated ==
    /\ \A p \in {"Read", "Transform", "Write"} : failed[p] \cap SuccessSet(p) = {}
    /\ PhasesRunToCompletion
    /\ (pc \in {"Done", "Failed"} /\ SomeTableSurvived /\ exception # "OSError")
          => (pc = "Done" /\ results.returned /\ results.success)

SchemaLoadFails ==
    \/ ~config_settings.loaded /\ ~env.settings_ok
    \/ ~config_schemas.loaded /\ ~env.schemas_ok

RunLevelFailures ==
    { "FileNotFoundError", "ValueError: No CSV data was successfully read",
      "ValueError: No data was successfully transformed" }

\* what holds of every state: a phase past the failure is never entered
FailureStops ==
    /\ "Read" \in Range(phase_log) => config_settings.loaded /\ config_schemas.loaded
    /\ Range(phase_log) \cap {"Validate", "Transform", "Write", "Done"} # {}
          => DOMAIN raw_data # {}
    /\ Range(phase_log) \cap {"Write", "Done"} # {} => DOMAIN transformed_data # {}
    /\ pc = "Failed" =>
          /\ phase_log[Len(phase_log)] = "Failed"
          /\ "Done" \notin Range(phase_log)
          /\ ~results.returned
    /\ exception \in RunLevelFailures =>
          /\ pc = "Failed"
          /\ "Write" \notin Range(phase_log)
          /\ attempted["Write"] = {}
          /\ write_results = NoWriteResults

\* what holds of every step: the three failures lead to Failed, and nothing
\* happens in Failed until the next call starts
FailureStep ==
    /\ (pc = "Init" /\ SchemaLoadFails) => pc' = "Failed"
    /\ (pc = "Read" /\ todo = <<>> /\ DOMAIN raw_data = {}) => pc' = "Failed"
    /\ (pc = "Transform" /\ todo = <<>> /\ DOMAIN transformed_data = {})
          => pc' = "Failed"
    /\ pc = "Failed" =>
          \/ run' = run + 1 /\ pc' = "Init"
          \/ pc' = "Failed" /\ disk' = disk /\ write_stats' = write_stats
             /\ phase_log' = phase_log

\* C3: if the schemas cannot be loaded, or Read yields no table, or Transform
\* yields no table, the call ends in Failed; no later phase is entered and no
\* output file is written after the failure.
RunLevelFailureIsTerminal == [](FailureStops) /\ [][FailureStep]_vars

\* a call that failed in Transform, after Read handed a table on
RunLevelFailureWitness ==
    /\ pc = "Failed"
    /\ exception = "ValueError: No data was successfully transformed"
    /\ DOMAIN raw_data # {}
    /\ phase_log[Len(phase_log) - 1] = "Transform"

\* C4 as stated: run_conversion always returns a results structure, and on a
\* run-level failure the returned results carry success = false.
AlwaysReturnsResults ==
    pc \in {"Done", "Failed"} =>
        /\ results.returned
        /\ pc = "Failed" => ~results.success

\* C4, amended: on a run-level failure run_conversion re-raises the exception
\* and returns no results structure; a call that completes returns one, and
\* every results structure returned carries success = true.
ReturnsResultsOrRaises ==
    /\ pc = "Failed" => ~results.returned /\ exception # ""
    /\ pc = "Done" => results.returned /\ exception = ""
    /\ results.returned => results.success /\ pc = "Done"

\* a call that failed because no table could be read
ReturnsResultsOrRaisesWitness ==
    /\ pc = "Failed"
    /\ exception = "ValueError: No CSV data was successfully read"
    /\ ~results.returned

(***************************************************************************)
(* Properties of validate_dataframe, checked under SpecValidate.  They are *)
(* stated on the input v_in and the result v_out.res, not through the      *)
(* operators that model the validator.                                     *)
(***************************************************************************)
VResult == v_out.res

VKnown == v_in.table_name \in DOMAIN v_in.schemas

\* the columns the schema of the table marks as required
VRequired ==
    LET schema == v_in.schemas[v_in.table_name]
    IN  {c \in Range(schema.order) : schema.cfg[c].required}

\* the rows of the DataFrame whose cell in column c is null
NullRows(c) ==
    {i \in 1..Len(v_in.df.rows) : v_in.df.rows[i][c].tag \in {"NA", "NaN", "None"}}

\* max(0.0, 100.0 - 10*|errors| - 5*|warnings| - 2*|issues|)
ClaimedScore(r) ==
    LET x == 100 - 10 * Len(r.errors) - 5 * Len(r.warnings) - 2 * Len(r.issues)
    IN  IF x > 0 THEN x ELSE 0

ValidRowsCount ==
    v_done =>
        IF VResult.errors # <<>>
        THEN VResult.valid_rows = 0
        ELSE VResult.valid_rows =
                 Cardinality({i \in 1..Len(v_in.df.rows) :
                                \A c \in VRequired : i \notin NullRows(c)})

\* a validation without errors of two rows, a column that is not required
\* holding a null
ValidRowsCountWitness ==
    /\ v_done
    /\ VResult.errors = <<>>
    /\ VResult.valid_rows = 2
    /\ \E c \in Range(v_in.df.columns) : NullRows(c) # {}

\* Scenario A: required columns id (integer) and name (text), two rows,
\* exactly one of them with a null name
ScenarioA ==
    /\ VKnown
    /\ v_in.schemas[v_in.table_name].order = <<"id", "name">>
    /\ VRequired = {"id", "name"}
    /\ v_in.df.columns = <<"id", "name">>
    /\ v_in.df.dtypes = ("id" :> "Int64") @@ ("name" :> "string")
    /\ Len(v_in.df.rows) = 2
    /\ \A i \in 1..2 : v_in.df.rows[i]["id"] = IntV(1)
    /\ Cardinality(NullRows("name")) = 1
    /\ \A i \in (1..2) \ NullRows("name") : v_in.df.rows[i]["name"] = StrV("Alice")

\* C7 as stated: in Scenario A the validation reports exactly one error (a
\* null in a required field), the score 90.0 and valid_rows = 1.
ScenarioAOneValidRow ==
    (v_done /\ ScenarioA) =>
        /\ Len(VResult.errors) = 1
        /\ VResult.errors[1].kind = "required_null"
        /\ VResult.data_quality_score = 90
        /\ VResult.valid_rows = 1

\* C7, amended: in Scenario A the validation reports exactly one error (a
\* null in a required field), the score 90.0 and valid_rows = 0.
ScenarioANoValidRow ==
    (v_done /\ ScenarioA) =>
        /\ Len(VResult.errors) = 1
        /\ VResult.errors[1].kind = "required_null"
        /\ VResult.data_quality_score = 90
        /\ VResult.valid_rows = 0

\* Scenario A, validated
ScenarioAWitness ==
    /\ v_done
    /\ ScenarioA
    /\ VResult.total_rows = 2

\* C8 as stated: validate_dataframe never raises and never halts early: for
\* every table, known to the schemas or not, each of the four checks runs.
AllChecksAlwaysRun ==
    /\ ~v_done => ENABLED ValidateCall
    /\ v_done => \A k \in 1..Len(CheckNames) :
                     CheckNames[k] \in Range(v_out.completed)

\* the findings of the four checks, each run on its own
FindingsOfChecks ==
    LET fresh == InitialResults(v_in.df, v_in.table_name)
        c1 == ValidateRequiredColumns(v_in.schemas, v_in.df, v_in.table_name, fresh)
        c2 == ValidateDataTypes(v_in.schemas, v_in.df, v_in.table_name, fresh)
        c3 == ValidateRequiredFields(v_in.schemas, v_in.df, v_in.table_name, fresh)
        c4 == ValidateDataRanges(v_in.df, v_in.table_name, fresh)
    IN  [errors   |-> c1.errors \o c2.errors \o c3.errors \o c4.errors,
         warnings |-> c1.warnings \o c2.warnings \o c3.warnings \o c4.warnings,
         issues   |-> c1.issues \o c2.issues \o c3.issues \o c4.issues]

\* C8, amended: validate_dataframe never raises.  For a table the schemas
\* know (one with missing columns included) each of the four checks runs,
\* whatever the earlier checks found, and the result holds the findings of
\* each.  When a check raises, as the first does for a table unknown to the
\* schemas, the later checks are skipped and the result holds the error
\* "Validation process failed".
AllChecksRunUnlessOneRaises ==
    /\ ~v_done => ENABLED ValidateCall
    /\ v_done =>
          IF VKnown
          THEN /\ ~v_out.exc
               /\ SubSeq(v_out.completed, 1, Len(CheckNames)) = CheckNames
               /\ VResult.errors = FindingsOfChecks.errors
               /\ VResult.warnings = FindingsOfChecks.warnings
               /\ VResult.issues = FindingsOfChecks.issues
          ELSE /\ v_out.exc
               /\ v_out.completed = <<>>
               /\ VResult.errors = <<Finding("process_failed", {}, 0)>>
               /\ VResult.warnings = <<>>
               /\ VResult.issues = <<>>

\* a table with a missing column whose later checks found something too
AllChecksRunWitness ==
    /\ v_done
    /\ VKnown
    /\ \E i \in DOMAIN VResult.errors : VResult.errors[i].kind = "missing_columns"
    /\ \E i \in DOMAIN VResult.errors : VResult.errors[i].kind = "required_null"
    /\ \E i \in DOMAIN VResult.warnings : VResult.warnings[i].kind = "empty_string"

\* the errors of the required-field check that name column c
RequiredNullErrors(c) ==
    {i \in DOMAIN VResult.errors :
        VResult.errors[i].kind = "required_null" /\ c \in VResult.errors[i].cols}

\* C10: for each required column of the schema the result holds exactly one
\* error naming the column and its number of nulls if and only if the column
\* holds a null in the table; a null in a column that is not required yields
\* no such error.
RequiredNullsReported ==
    v_done =>
        \A c \in ColPool :
            IF /\ VKnown
               /\ c \in VRequired
               /\ c \in Range(v_in.df.columns)
               /\ NullRows(c) # {}
            THEN /\ Cardinality(RequiredNullErrors(c)) = 1
                 /\ \A i \in RequiredNullErrors(c) :
                        VResult.errors[i] =
                            Finding("required_null", {c}, Cardinality(NullRows(c)))
            ELSE RequiredNullErrors(c) = {}

\* a table with nulls in a required column and in one that is not required
RequiredNullsReportedWitness ==
    /\ v_done
    /\ VKnown
    /\ \E c \in VRequired : RequiredNullErrors(c) # {}
    /\ \E c \in Range(v_in.df.columns) \ VRequired : NullRows(c) # {}

(***************************************************************************)
(* Properties of _calculate_quality_score, checked under SpecScore.        *)
(***************************************************************************)
\* what one more error, warning and issue cost the first results
ErrorCost == s_out[1] - s_out[3]

WarningCost == s_out[1] - s_out[4]

IssueCost == s_out[1] - s_out[5]

\* C9 as stated: of two results with the same warnings and issues the one
\* with more errors has the strictly smaller score; one more error costs more
\* than one more warning, which costs more than one more issue; the score
\* lies in [0, 100].
ScoreStrictlyMonotone ==
    s_done =>
        /\ Len(s_in[2].errors) > Len(s_in[1].errors) => s_out[2] < s_out[1]
        /\ ErrorCost > WarningCost
        /\ WarningCost > IssueCost
        /\ \A k \in DOMAIN s_out : s_out[k] \in 0..100

\* C9, amended: of two results with the same warnings and issues the one
\* with more errors has no larger score, and a strictly smaller one when the
\* other's score is above 0; one more error costs no less than one more
\* warning, which costs no less than one more issue, and strictly more while
\* the score before is above 5, respectively above 2; the score lies in
\* [0, 100].
ScoreMonotoneUntilClamped ==
    s_done =>
        /\ Len(s_in[2].errors) > Len(s_in[1].errors) =>
              /\ s_out[2] <= s_out[1]
              /\ s_out[1] > 0 => s_out[2] < s_out[1]
        /\ ErrorCost >= WarningCost
        /\ WarningCost >= IssueCost
        /\ s_out[1] > 5 => ErrorCost > WarningCost
        /\ s_out[1] > 2 => WarningCost > IssueCost
        /\ \A k \in DOMAIN s_out : s_out[k] \in 0..100

\* two results away from the floor, one more finding costing 10, 5 and 2
ScoreMonotoneWitness ==
    /\ s_done
    /\ Len(s_in[2].errors) > Len(s_in[1].errors)
    /\ s_out[2] > 0
    /\ s_out[1] > s_out[2]
    /\ ErrorCost = 10 /\ WarningCost = 5 /\ IssueCost = 2

(***************************************************************************)
(* Properties of the single checks of validate_dataframe (SpecValidate).   *)
(***************************************************************************)
\* the column names of the schema of the table
VExpected == Range(v_in.schemas[v_in.table_name].order)

\* the column names of the DataFrame
VActual == Range(v_in.df.columns)

\* the findings of the given kind in a list of the result
OfKind(list, kind) == {i \in DOMAIN list : list[i].kind = kind}

\* C11: the column-presence check adds exactly one error, for the whole set
\* of missing columns, when that set is not empty, exactly one warning, for
\* the whole set of extra columns, when that set is not empty, and nothing
\* when the schema's column names are the table's.
ColumnPresenceReported ==
    (v_done /\ VKnown) =>
        LET missing   == VExpected \ VActual
            extra     == VActual \ VExpected
            m_errors  == OfKind(VResult.errors, "missing_columns")
            x_warns   == OfKind(VResult.warnings, "extra_columns")
        IN  /\ Cardinality(m_errors) = IF missing # {} THEN 1 ELSE 0
            /\ \A i \in m_errors : VResult.errors[i].cols = missing
            /\ Cardinality(x_warns) = IF extra # {} THEN 1 ELSE 0
            /\ \A i \in x_warns : VResult.warnings[i].cols = extra
            /\ OfKind(VResult.warnings, "missing_columns") = {}
            /\ OfKind(VResult.errors, "extra_columns") = {}

\* a table that lacks two columns of the schema and has two others
ColumnPresenceWitness ==
    /\ v_done
    /\ VKnown
    /\ Cardinality(VExpected \ VActual) = 2
    /\ Cardinality(VActual \ VExpected) = 2
    /\ OfKind(VResult.errors, "missing_columns") # {}

FindingsFor(list, kind, c) == {i \in OfKind(list, kind) : list[i].cols = {c}}

HasNegative(df, c) == \E i \in 1..DfLen(df) : df.rows[i][c].tag \in {"int", "float"} /\ df.rows[i][c].n < 0

HasEmptyString(df, c) == \E i \in 1..DfLen(df) : df.rows[i][c] = StrV("")

RangeKinds == {"negative_id", "negative_price", "empty_string"}

\* C12: in the range/format check every numeric column whose name ends in
\* "_id", and every numeric column whose name ends in "_price" or "_subtotal",
\* yields one issue if and only if it holds at least one negative value (a
\* missing value is never negative); every text column holding at least one
\* empty string yields one warning; none of these findings is an error.
RangeFindingsReported ==
    (v_done /\ VKnown) =>
        /\ \A c \in VActual :
            LET numeric == v_in.df.dtypes[c] \in {"int64", "Int64", "float64"}
                text == v_in.df.dtypes[c] \in {"string", "object"}
                ids == FindingsFor(VResult.issues, "negative_id", c)
                prices == FindingsFor(VResult.issues, "negative_price", c)
                empties == FindingsFor(VResult.warnings, "empty_string", c)
            IN  /\ Cardinality(ids) =
                     IF numeric /\ c = "order_id" /\ HasNegative(v_in.df, c) THEN 1 ELSE 0
                /\ Cardinality(prices) =
                     IF numeric /\ c = "item_price" /\ HasNegative(v_in.df, c) THEN 1 ELSE 0
                /\ Cardinality(empties) =
                     IF text /\ HasEmptyString(v_in.df, c) THEN 1 ELSE 0
        /\ \A k \in RangeKinds : OfKind(VResult.errors, k) = {}
        /\ OfKind(VResult.warnings, "negative_id") = {}
        /\ OfKind(VResult.warnings, "negative_price") = {}
        /\ OfKind(VResult.issues, "empty_string") = {}
        /\ \A i \in DOMAIN VResult.issues :
               VResult.issues[i].kind \in {"negative_id", "negative_price"}
                   => \E c \in VActual : VResult.issues[i].cols = {c}
        /\ \A i \in OfKind(VResult.warnings, "empty_string") :
               \E c \in VActual : VResult.warnings[i].cols = {c}

RangeFindingsWitness ==
    /\ v_done /\ VKnown
    /\ v_in.df.columns = <<"order_id", "item_price">>
    /\ v_in.df.dtypes["order_id"] = "Int64"
    /\ HasNegative(v_in.df, "order_id")
    /\ \E i \in 1..DfLen(v_in.df) : IsNull(v_in.df.rows[i]["item_price"])
    /\ ~HasNegative(v_in.df, "item_price")
    /\ Cardinality(OfKind(VResult.issues, "negative_id")) = 1
    /\ OfKind(VResult.issues, "negative_price") = {}

(***************************************************************************)
(* Properties of one cell, checked under SpecCell.                         *)
(***************************************************************************)
NullTokens == {"", "NULL", "null", "None"}

CellRead == c_pc \in {"typed", "json", "reread"}

CellEmitted == c_pc \in {"json", "reread"}

MissingValue(v) == v.tag \in {"NA", "NaN", "None"}

\* C13: for every schema type (integer, float, text) a raw cell "", "NULL",
\* "null" or "None" is read as a missing value, never as a failure of the
\* read; every missing value of a DataFrame (pd.NA, None, float NaN) is
\* emitted as JSON null; and the null of a record, read as a raw cell,
\* is a missing value again.
NullCollapse ==
    /\ (c_in.source = "raw" /\ c_in.text \in NullTokens) =>
           /\ c_pc # "failed"
           /\ CellRead => c_typed.ok /\ MissingValue(c_typed.value)
    /\ (CellEmitted /\ MissingValue(c_typed.value)) => c_json = JsonNull
    /\ (CellEmitted /\ c_json = JsonNull /\ c_in.dtype \notin {"string", "object"})
           => MissingValue(c_typed.value)
    /\ c_pc = "reread" => c_again.ok /\ MissingValue(c_again.value)

NullCollapseWitness ==
    /\ c_pc = "reread"
    /\ c_in.source = "raw"
    /\ c_in.dtype = "float64"
    /\ c_in.text = "None"
    /\ c_typed.value = NaN
    /\ c_json = JsonNull
    /\ c_again.value = NaN

TextCellOf(texts) ==
    /\ c_in.source = "raw"
    /\ c_in.dtype = "string"
    /\ c_in.text \notin texts

\* C14 as stated: a text cell whose raw value is none of "", "NULL", "null",
\* "None" is read and appears in the record as the same string, never as null.
TextPassesThrough ==
    TextCellOf(NullTokens) =>
        /\ c_pc # "failed"
        /\ CellRead => c_typed = [ok |-> TRUE, value |-> StrV(c_in.text)]
        /\ CellEmitted => c_json = StrV(c_in.text)

PandasMarkers == {"NA", "N/A", "NaN", "nan", "n/a", "<NA>", "#N/A"}

\* C14: a text cell whose raw value is none of "", "NULL", "null", "None" and
\* none of the markers read_csv takes for missing values by default is read
\* and appears in the record as the same string, never as null.
TextPassesThroughUnlessMarker ==
    TextCellOf(NullTokens \cup PandasMarkers) =>
        /\ c_pc # "failed"
        /\ CellRead => c_typed = [ok |-> TRUE, value |-> StrV(c_in.text)]
        /\ CellEmitted => c_json = StrV(c_in.text)

TextPassesThroughWitness ==
    /\ TextCellOf(NullTokens \cup PandasMarkers)
    /\ c_pc = "json"
    /\ c_in.text = "NONE"
    /\ c_json = StrV("NONE")

(***************************************************************************)
(* Properties of transform_dataframe, and of validate_dataframe and        *)
(* transform_dataframe on the same DataFrame, checked under SpecValidate.  *)
(***************************************************************************)
\* the value record number i of the output carries under the name c
Emitted(i, c) ==
    LET rec == t_out.data[i]
    IN  rec[CHOOSE j \in DOMAIN rec : rec[j].col = c].value

TextColumns == {c \in VActual : v_in.df.dtypes[c] \in {"string", "object"}}

EmptyCells == {<<i, c>> \in (1..Len(v_in.df.rows)) \X TextColumns :
                  v_in.df.rows[i][c] = StrV("")}

\* C15: for a table holding an empty string in a text column, validate
\* takes the cell for a value (no required-field error for a column whose
\* only blanks are empty strings, every row counted valid when there is no
\* error, one empty-string warning for the column) while transform emits
\* null for the cell.
EmptyStringAsymmetry ==
    (v_done /\ t_done /\ VKnown) =>
        \A cell \in EmptyCells :
            /\ Emitted(cell[1], cell[2]) = JsonNull
            /\ Cardinality(FindingsFor(VResult.warnings, "empty_string", cell[2])) = 1
            /\ NullRows(cell[2]) = {} =>
                   FindingsFor(VResult.errors, "required_null", cell[2]) = {}
            /\ VResult.errors = <<>> => VResult.valid_rows = Len(v_in.df.rows)

\* an output record carries null in a required column of a table that
\* validated with no error
EmptyStringAsymmetryWitness ==
    /\ v_done /\ t_done /\ VKnown
    /\ \E cell \in EmptyCells :
           /\ cell[2] \in VRequired
           /\ Emitted(cell[1], cell[2]) = JsonNull
    /\ VResult.errors = <<>>
    /\ VResult.valid_rows = Len(v_in.df.rows)
    /\ VResult.valid_rows = 2

(***************************************************************************)
(* Properties of the tables run_conversion reads and transforms (Spec).    *)
(***************************************************************************)
\* the schema the run holds for a table
RunSchema(t) == table_schemas.tables[t]

JsonScalarTags == {"null", "int", "float", "str"}

\* a value of a column of the given schema type, as JSON
JsonValueOfType(v, type) ==
    \/ v.tag = "null"
    \/ type = "int64" /\ v.tag = "int"
    \/ type = "float64" /\ v.tag = "float"
    \/ type = "string" /\ v.tag = "str"

\* C16: every record emitted for a table has exactly the columns of the
\* table's schema, each once, in the order of their positions, one record is
\* emitted for every row read, and every value of a record is a JSON scalar
\* (null, integer, float or string) of its column's type.
RowShape ==
    \A t \in DOMAIN transformed_data :
        LET schema == RunSchema(t)
            data == transformed_data[t].data
        IN  /\ Len(data) = Len(raw_data[t].rows)
            /\ \A i \in DOMAIN data :
                   LET rec == data[i]
                   IN  /\ {rec[j].col : j \in DOMAIN rec} = Range(schema.order)
                       /\ Len(rec) = Cardinality(Range(schema.order))
                       /\ \A j, k \in DOMAIN rec :
                              j < k => schema.cfg[rec[j].col].position
                                           < schema.cfg[rec[k].col].position
                       /\ \A j \in DOMAIN rec :
                              /\ rec[j].value.tag \in JsonScalarTags
                              /\ JsonValueOfType(rec[j].value,
                                                 schema.cfg[rec[j].col].type)

RowShapeWitness ==
    /\ "order_items" \in DOMAIN transformed_data
    /\ LET data == transformed_data["order_items"].data
       IN  /\ Len(data) = 3
           /\ data[1] = << [col |-> "order_id", value |-> IntV(1)],
                           [col |-> "item_price", value |-> JsonNull] >>
           /\ data[3][2].value = JsonNull

\* the statistics entry of a column of the DataFrame that was transformed
StatsOf(c) == t_out.metadata.statistics[c]

NumericColumns == {c \in VActual : v_in.df.dtypes[c] \in {"int64", "Int64", "float64"}}

\* the rows in which the column holds a value
ValueRows(c) == (1..Len(v_in.df.rows)) \ NullRows(c)

\* the entry has min, max and mean, taken over the values of the column
StatsOverValues(c) ==
    /\ {"min", "max", "mean"} \subseteq StatsOf(c).keys
    /\ \E i \in ValueRows(c) : v_in.df.rows[i][c].n = StatsOf(c).min
    /\ \E i \in ValueRows(c) : v_in.df.rows[i][c].n = StatsOf(c).max
    /\ \A i \in ValueRows(c) :
           /\ StatsOf(c).min <= v_in.df.rows[i][c].n
           /\ v_in.df.rows[i][c].n <= StatsOf(c).max
    /\ StatsOf(c).mean_count = Cardinality(ValueRows(c))
    /\ StatsOf(c).mean_sum =
           SumOf([i \in ValueRows(c) |-> v_in.df.rows[i][c].n], ValueRows(c))

\* every column has a null_count: the number of cells that are missing, or
\* are the empty string that the cleaning has turned into a missing value
NullCountOfEveryColumn ==
    \A c \in VActual :
        /\ "null_count" \in StatsOf(c).keys
        /\ StatsOf(c).null_count =
               Cardinality(NullRows(c) \cup {i \in 1..Len(v_in.df.rows) :
                                               v_in.df.rows[i][c] = StrV("")})

\* C17 as stated: every numeric column has min, max, mean and null_count,
\* also when the column is entirely null, and every column has a null_count.
StatisticsOfEveryNumericColumn ==
    t_done =>
        /\ DOMAIN t_out.metadata.statistics = VActual
        /\ \A c \in NumericColumns :
               /\ {"min", "max", "mean", "null_count"} \subseteq StatsOf(c).keys
               /\ ValueRows(c) # {} => StatsOverValues(c)
        /\ NullCountOfEveryColumn

\* C17: every numeric column holding at least one value has min, max and
\* mean, computed over its values only, and null_count; a numeric column
\* that is entirely null (or has no row) has null_count alone, like a column
\* that is not numeric; every column has a null_count.
StatisticsOfColumnsWithData ==
    t_done =>
        /\ DOMAIN t_out.metadata.statistics = VActual
        /\ \A c \in NumericColumns :
               IF ValueRows(c) # {}
               THEN /\ StatsOf(c).keys = {"min", "max", "mean", "null_count"}
                    /\ StatsOverValues(c)
               ELSE StatsOf(c).keys = {"null_count"}
        /\ \A c \in VActual \ NumericColumns : StatsOf(c).keys = {"null_count"}
        /\ NullCountOfEveryColumn

StatisticsWitness ==
    /\ t_done
    /\ v_in.df.columns = <<"order_id", "item_price">>
    /\ v_in.df.dtypes["order_id"] = "Int64"
    /\ v_in.df.dtypes["item_price"] = "float64"
    /\ Len(v_in.df.rows) = 2
    /\ ValueRows("item_price") = {}
    /\ StatsOf("item_price").keys = {"null_count"}
    /\ StatsOf("item_price").null_count = 2
    /\ Cardinality(ValueRows("order_id")) = 1
    /\ StatsOf("order_id").mean_count = 1


(***************************************************************************)
(* Properties of create_combined_dataset, checked under SpecCombine.       *)
(***************************************************************************)
RecordCounts == [t \in DOMAIN m_in |-> Len(m_in[t].data)]

\* Scenario C of the specification: two tables, of 3 and of 5 records
ScenarioC ==
    /\ Cardinality(DOMAIN m_in) = 2
    /\ \E t, u \in DOMAIN m_in : RecordCounts[t] = 3 /\ RecordCounts[u] = 5

\* C18: the combined dataset's total_records is the sum of the record counts
\* of the tables, table_count is the number of tables, and the entry of
\* every table in `tables` is the record list of that table; tables of 3 and
\* 5 records give total_records 8 and table_count 2.
CombineAdditivity ==
    m_done =>
        /\ m_out.metadata.total_records = SumOf(RecordCounts, DOMAIN m_in)
        /\ m_out.metadata.table_count = Cardinality(DOMAIN m_in)
        /\ DOMAIN m_out.tables = DOMAIN m_in
        /\ \A t \in DOMAIN m_in : m_out.tables[t] = m_in[t].data
        /\ ScenarioC => /\ m_out.metadata.total_records = 8
                        /\ m_out.metadata.table_count = 2

CombineAdditivityWitness ==
    /\ m_done
    /\ ScenarioC
    /\ DOMAIN m_in = {"customers", "orders"}
    /\ m_out.metadata.total_records = 8
    /\ Len(m_out.tables["customers"]) = 3
    /\ Len(m_out.tables["orders"]) = 5


(***************************************************************************)
(* Properties of the schemas of a process, checked under Spec.             *)
(***************************************************************************)
\* a step of the process after schemas.yaml was loaded: the cached schemas
\* are not replaced and the file is not opened again
SchemaCacheStep ==
    /\ config_schemas.loaded =>
           /\ config_schemas' = config_schemas
           /\ schema_reads' = schema_reads
    /\ table_schemas.loaded => table_schemas' = table_schemas

\* the schemas the readers hold are those of the one read of schemas.yaml
SchemaCacheState ==
    /\ schema_reads = IF config_schemas.loaded THEN 1 ELSE 0
    /\ config_schemas.loaded => config_schemas.tables = env.tables
    /\ table_schemas.loaded =>
           /\ config_schemas.loaded
           /\ table_schemas.tables = config_schemas.tables

\* C19: once schemas.yaml has been loaded, every later load returns the
\* cached schemas without reading the file again, and the schemas are not
\* changed for the rest of the process.
SchemaLoadedOnce == [](SchemaCacheState) /\ [][SchemaCacheStep]_vars

\* a second call of run_conversion has loaded the schemas again and reads
\* its tables, with the file read once
SchemaLoadedOnceWitness ==
    /\ run = 2
    /\ pc = "Read"
    /\ table_schemas.loaded
    /\ table_schemas.tables = env.tables
    /\ DOMAIN table_schemas.tables = {"customers", "order_items"}
    /\ schema_reads = 1


\* the definition of the table's schema is one that validate_schema rejects:
\* no column, or a column without 'type' or without 'position'
BadSchema(t) ==
    \/ RunSchema(t).order = <<>>
    \/ \E c \in Range(RunSchema(t).order) :
           ~RunSchema(t).cfg[c].has_type \/ ~RunSchema(t).cfg[c].has_position

FileErrors == {"FileNotFoundError", "EmptyDataError", "ParserError", "ValueError"}

\* C20: the definition of a table's schema is checked before the table's
\* file is looked for or read; a table whose schema has no column, or a
\* column without type or without position, fails with the error of that
\* check, whatever its file holds, no DataFrame is kept for it and it is not
\* among the tables Read hands on, while the loop still takes every other
\* table and keeps those whose schema and file are in order.
SchemaCheckedFirst ==
    /\ \A t \in attempted["Read"] :
           /\ BadSchema(t) =>
                  /\ t \in failed["Read"]
                  /\ t \notin DOMAIN raw_data
                  /\ t \in DOMAIN read_error /\ read_error[t] = "SchemaValueError"
           /\ ~BadSchema(t) =>
                  IF t \in failed["Read"]
                  THEN t \notin DOMAIN raw_data /\ read_error[t] \in FileErrors
                  ELSE t \in DOMAIN raw_data /\ t \notin DOMAIN read_error
    /\ (pc = "Read" /\ todo = <<>>) => attempted["Read"] = DOMAIN table_schemas.tables
    /\ DOMAIN raw_data \subseteq attempted["Read"]

\* customers has a column without type and a file that reads well; the
\* table is refused for its schema and order_items is read after it
SchemaCheckedFirstWitness ==
    /\ pc = "Read" /\ todo = <<>>
    /\ DOMAIN table_schemas.tables = {"customers", "order_items"}
    /\ BadSchema("customers")
    /\ env_csv["customers"].exists
    /\ env_csv["customers"].lines = << <<"1", "Alice">>, <<"2", "">> >>
    /\ read_error = ("customers" :> "SchemaValueError")
    /\ DOMAIN raw_data = {"order_items"}
    /\ Len(raw_data["order_items"].rows) = 3


(***************************************************************************)
(* Properties of the Write phase and of the results of a run (Spec).       *)
(***************************************************************************)
RunReturned == pc = "Done" /\ results.returned

\* the tables whose file the readback of the run found unreadable
ReadbackFailed ==
    {f \in DOMAIN write_results.validation : ~write_results.validation[f]}

\* C21: in a run that returns, the readback is run on every file the run
\* wrote, and a table whose write or whose readback failed is not listed in
\* output_files.individual_files and is not counted in files_written.
ReadbackFailureExcludes ==
    RunReturned =>
        /\ write_results.individual_files \subseteq DOMAIN write_results.validation
        /\ \A t \in attempted["Write"] :
               (t \in failed["Write"] \/ t \in ReadbackFailed) =>
                   t \notin results.output_files.individual_files
        /\ results.summary.files_written =
               Cardinality(attempted["Write"] \ (failed["Write"] \cup ReadbackFailed))


(***************************************************************************)
(* Properties of the arguments and of the state that validate_dataframe    *)
(* and transform_dataframe leave behind (SpecValidate).                    *)
(***************************************************************************)
\* C22: validate_dataframe and transform_dataframe, called in any order and
\* any number of times, leave the DataFrame they are given as it was: every
\* cell, the empty strings and the nulls included, keeps its value.
InputTableUnchanged == [][v_in' = v_in]_vars

\* both were called on a DataFrame with an empty string and a null; the
\* output carries null for the empty string, the DataFrame still holds it
InputTableUnchangedWitness ==
    /\ v_done /\ t_done
    /\ v_in.df.columns = <<"id", "name">>
    /\ Len(v_in.df.rows) = 2
    /\ v_in.df.rows[1]["name"] = StrV("")
    /\ v_in.df.rows[2]["id"] = NA
    /\ Emitted(1, "name") = JsonNull


\* the state outside the validator: the caller's DataFrame, the configuration,
\* the schemas, the transformer, the writer and the files
OutsideValidator ==
    <<env_vars, v_in, config_settings, config_schemas, schema_reads,
      table_schemas, transformation_stats, write_stats, disk, run_vars,
      score_vars, unit_vars>>

\* a step in which validate_dataframe returns
ValidateReturns == v_done' /\ v_out' = ValidateRun(v_in.schemas, v_in.df, v_in.table_name)

MisshapenLines(t) ==
    {i \in DOMAIN env_csv[t].lines :
        Len(env_csv[t].lines[i]) # Len(GetColumnNames(table_schemas.tables, t))}

\* C24: the read of a table fails whenever a line of its file has fewer or
\* more cells than the schema has columns; no table with such a line is among
\* the tables read, which are the tables validated and transformed.
MisshapenRowFailsRead ==
    \A t \in attempted["Read"] :
        (env_csv[t].exists /\ MisshapenLines(t) # {}) =>
            /\ t \in failed["Read"]
            /\ t \notin DOMAIN raw_data
            /\ t \notin DOMAIN run_validation
            /\ t \notin DOMAIN transformed_data


\* C25: the result of every validation of a run reports valid_rows = 0 or
\* valid_rows = total_rows, never a count in between.
NoPartialValidCount ==
    \A t \in DOMAIN run_validation :
        run_validation[t].valid_rows \in {0, run_validation[t].total_rows}


(***************************************************************************)
(* Properties of the tables and of the records that cross the phases of a  *)
(* run (Spec).                                                             *)
(***************************************************************************)
\* the DataFrame read_csv_file builds for a table of the run
ReadOf(t) == ReadCsvFile(table_schemas.tables, t, env_csv[t]).df

\* the Transform phase of the run is over
TransformOver == pc \in {"Write", "Done"}

\* C26: the tables handed to Transform are the tables read, whether the run
\* validated them or not and whatever the validation found; the records of a
\* table transformed are those of transform_dataframe on the table as it was
\* read; the tables handed to Write are the tables transformed, and the files
\* written hold their records and, for the combined file, the records of all
\* of them.
ValidationDoesNotInfluenceOutput ==
    /\ \A t \in DOMAIN raw_data : raw_data[t] = ReadOf(t)
    /\ TransformOver => attempted["Transform"] = DOMAIN raw_data
    /\ DOMAIN transformed_data = attempted["Transform"] \ failed["Transform"]
    /\ \A t \in DOMAIN transformed_data :
           transformed_data[t] = TransformDataframe(ReadOf(t), t)
    /\ RunReturned =>
           /\ attempted["Write"] =
                  IF GetSetting("output.individual_files")
                  THEN DOMAIN transformed_data ELSE {}
           /\ write_results.individual_files =
                  attempted["Write"] \ failed["Write"]
           /\ \A t \in write_results.individual_files :
                  /\ disk[t].valid
                  /\ disk[t].records = Len(TransformDataframe(ReadOf(t), t).data)
           /\ write_results.has_combined_file =>
                  /\ disk[CombinedName].valid
                  /\ disk[CombinedName].records =
                         SumOf([t \in DOMAIN transformed_data |->
                                   Len(TransformDataframe(ReadOf(t), t).data)],
                               DOMAIN transformed_data)

\* a run with the validation on returns: customers was validated with an
\* error, transformed and written
ValidationDoesNotInfluenceOutputWitness ==
    /\ RunReturned
    /\ "customers" \in DOMAIN run_validation
    /\ run_validation["customers"].errors # <<>>
    /\ "customers" \in write_results.individual_files
    /\ write_results.has_combined_file
    /\ Len(transformed_data["customers"].data) = 2
    /\ transformed_data["customers"].data[2][2] = [col |-> "name", value |-> JsonNull]


\* the tables a phase of the run took, and those it handed on
TakenBy(p) == attempted[p] \cup SuccessSet(p)

\* C27: the tables written as individual files are among the tables
\* transformed, these among the tables read, these among the tables of the
\* schemas; a table that failed in Read, Transform or Write is handed on by
\* its phase to no later phase of the run, and no later phase takes it.
SuccessSetsShrink ==
    /\ write_results.individual_files \subseteq DOMAIN transformed_data
    /\ DOMAIN transformed_data \subseteq DOMAIN raw_data
    /\ DOMAIN raw_data \subseteq DOMAIN table_schemas.tables
    /\ RunReturned =>
           results.output_files.individual_files \subseteq DOMAIN transformed_data
    /\ failed["Read"] \cap (DOMAIN raw_data \cup DOMAIN run_validation
                                \cup TakenBy("Validate") \cup TakenBy("Transform")
                                \cup TakenBy("Write")) = {}
    /\ failed["Transform"] \cap (DOMAIN transformed_data \cup TakenBy("Write")) = {}
    /\ failed["Write"] \cap write_results.individual_files = {}

\* a run returns: both tables of the schemas were read, order_items failed in
\* Transform, customers failed in Write, and the combined file was written
SuccessSetsShrinkWitness ==
    /\ RunReturned
    /\ DOMAIN table_schemas.tables = {"customers", "order_items"}
    /\ DOMAIN raw_data = {"customers", "order_items"}
    /\ failed["Transform"] = {"order_items"}
    /\ DOMAIN transformed_data = {"customers"}
    /\ failed["Write"] = {"customers"}
    /\ write_results.individual_files = {}


(***************************************************************************)
(* Properties of the statistics a run reports when run_conversion is       *)
(* called more than once in a process (Spec).                              *)
(***************************************************************************)
\* the files the run wrote
FilesWrittenByRun ==
    write_results.individual_files
        \cup (IF write_results.has_combined_file THEN {CombinedName} ELSE {})

\* C28: in every run that returns, the statistics of the transformation
\* list the tables this run transformed, and the statistics of the writing
\* and the readback list the files this run wrote; no table or file of an
\* earlier run of the process is among them.
StatisticsCoverTheRun ==
    RunReturned =>
        /\ results.phases.transformation.tables_transformed =
               Cardinality(DOMAIN transformed_data)
        /\ DOMAIN results.phases.transformation.tables = DOMAIN transformed_data
        /\ results.phases.writing.files = FilesWrittenByRun
        /\ results.phases.writing.files_written = Cardinality(FilesWrittenByRun)
        /\ DOMAIN results.output_files.validation = FilesWrittenByRun


\* C29: a run that returns success = true with the individual files enabled
\* has written the file of at least one table: summary.files_written >= 1.
SuccessHasWrittenTable ==
    (RunReturned /\ results.success /\ GetSetting("output.individual_files")) =>
        /\ results.summary.files_written >= 1
        /\ attempted["Write"] \ failed["Write"] # {}


\* the value record i of a transformed table holds for a column
EmittedFor(t, i, c) ==
    LET rec == transformed_data[t].data[i]
    IN  rec[CHOOSE j \in DOMAIN rec : rec[j].col = c].value

\* C30: a table transformed has as many records as the table read has rows,
\* record i holding the values of row i, and metadata.record_count is that
\* number; summary.total_rows_transformed is the number of rows read of the
\* tables that were transformed.
RowCountPreserved ==
    /\ \A t \in DOMAIN transformed_data :
           /\ Len(transformed_data[t].data) = DfLen(raw_data[t])
           /\ transformed_data[t].metadata.record_count = DfLen(raw_data[t])
           /\ \A i \in 1..DfLen(raw_data[t]) :
              \A c \in Range(raw_data[t].columns) :
                  LET v == raw_data[t].rows[i][c]
                  IN  IF IsNull(v) \/ v = StrV("")
                      THEN EmittedFor(t, i, c) = JsonNull
                      ELSE EmittedFor(t, i, c) = v
    /\ RunReturned =>
           results.summary.total_rows_transformed =
               SumOf([t \in DOMAIN transformed_data |-> DfLen(raw_data[t])],
                     DOMAIN transformed_data)

\* a run returns: customers (2 rows) failed in Transform, order_items was
\* transformed into 3 records in the order of its rows
RowCountPreservedWitness ==
    /\ RunReturned
    /\ failed["Transform"] = {"customers"}
    /\ DfLen(raw_data["customers"]) = 2
    /\ results.summary.total_rows_read = 5
    /\ results.summary.total_rows_transformed = 3
    /\ transformed_data["order_items"].metadata.record_count = 3
    /\ EmittedFor("order_items", 1, "order_id") = IntV(1)
    /\ EmittedFor("order_items", 2, "order_id") = IntV(0 - 1)
    /\ EmittedFor("order_items", 3, "item_price") = JsonNull

=============================================================================
